---------------------------- MODULE Spec2Model ----------------------------
(***************************************************************************)
(* A model of document-ai-search: the format-dispatching DocumentReader    *)
(* (scripts/file_reader.py) and the DocumentSearcher orchestrator          *)
(* (scripts/search_documents.py).                                          *)
(*                                                                         *)
(* File names, queries and error messages are TLA+ strings; TLC evaluates  *)
(* Len, \o and SubSeq on them.  Extracted document text can be 100000      *)
(* characters long, so a text is kept run-length encoded: a sequence of    *)
(* runs [c |-> character, n |-> count], n > 0, adjacent runs of different  *)
(* characters.  Every text operator below works on that encoding and       *)
(* returns it normalised, so equal texts are equal values.                 *)
(***************************************************************************)
EXTENDS Integers, Sequences, FiniteSets, TLC

VARIABLES
    mode,        \* which entry point this behaviour exercises
    pc,          \* position of the running call
    arg,         \* the input of a single call (a file, a path and query, ...)
    ret,         \* what the single call returned or raised
    folder,      \* DocumentSearcher.folder, as path parts ("." is <<>>)
    folder_kind, \* what the folder argument is on disk: "dir", "file", "missing"
    tree,        \* the entries under the folder (files and directories)
    query,       \* DocumentSearcher.query
    max_docs,    \* DocumentSearcher.max_docs
    batch_size,  \* DocumentSearcher.batch_size
    analyzer,    \* "standalone" (the script's placeholder) or "hosted"
    files,       \* search(): the discovered files
    path_match_results, \* search(): dict, in insertion order
    idx,         \* search(): the loop position (file or batch number)
    attempts,    \* the files handed to extract_content, in call order
    documents,   \* search(): the extracted documents
    stats,       \* DocumentSearcher.stats
    prompts,     \* the docs_info of every analyze_with_claude call, in order
    all_analyses,\* search(): the analyses gathered from the batches
    results,     \* what search() returned
    report,      \* what generate_report wrote (NoReport before)
    exit_code,   \* the process exit code (NoExit while running)
    calls,       \* the providers and engines the latest read ran, in order
    held         \* the resources opened by a read and not released by it

vars == <<mode, pc, arg, ret, folder, folder_kind, tree, query, max_docs,
          batch_size, analyzer, files, path_match_results, idx, attempts,
          documents, stats, prompts, all_analyses, results, report, exit_code,
          calls, held>>

searchVars == <<folder, folder_kind, tree, query, max_docs, batch_size, analyzer,
                files, path_match_results, idx, attempts, documents, stats,
                prompts, all_analyses, results, report, exit_code>>

readerVars == <<calls, held>>

---------------------------------------------------------------------------
(* Bounds of the model *)

\* Texts of length MAX_CHARS - 1 .. MAX_CHARS + MaxOver are read.
MaxOver == 2
\* A folder holds at most MaxEntries entries.
MaxEntries == 2

(* Program constants *)
MAX_CHARS == 100000
RELEVANCE_THRESHOLD == 30
PREVIEW_CHARS == 3000
DEFAULT_MAX_DOCS == 50
DEFAULT_BATCH_SIZE == 5

---------------------------------------------------------------------------
(* Python strings *)

Min(a, b) == IF a <= b THEN a ELSE b

RECURSIVE SeqSum(_)
SeqSum(s) == IF s = <<>> THEN 0 ELSE Head(s) + SeqSum(Tail(s))

\* str[i:] and str[:i] for 0 <= i <= len(str)
StrFrom(s, i) == SubSeq(s, i + 1, Len(s))
StrTo(s, i) == SubSeq(s, 1, i)
CharAt(s, i) == SubSeq(s, i, i)

\* t in s
Contains(s, t) ==
    \E i \in 1..(Len(s) - Len(t) + 1) : SubSeq(s, i, i + Len(t) - 1) = t

\* s.endswith(t)
EndsWith(s, t) ==
    Len(t) <= Len(s) /\ SubSeq(s, Len(s) - Len(t) + 1, Len(s)) = t

UPPER == "ABCDEFGHIJKLMNOPQRSTUVWXYZ"
LOWER == "abcdefghijklmnopqrstuvwxyz"

LowerChar(c) ==
    IF \E i \in 1..Len(UPPER) : CharAt(UPPER, i) = c
    THEN CharAt(LOWER, CHOOSE i \in 1..Len(UPPER) : CharAt(UPPER, i) = c)
    ELSE c

\* str.lower()
RECURSIVE Lower(_)
Lower(s) == IF Len(s) = 0 THEN "" ELSE LowerChar(CharAt(s, 1)) \o Lower(StrFrom(s, 1))

\* The characters of the model's names in code point order: Python compares
\* strings by code point.
CODE_ORDER == " ,./ABCDEFGHIJKLMNOPQRSTUVWXYZabcdefghijklmnopqrstuvwxyz"

Code(c) == CHOOSE i \in 1..Len(CODE_ORDER) : CharAt(CODE_ORDER, i) = c

\* s < t on Python strings
RECURSIVE StrLess(_, _)
StrLess(s, t) ==
    IF Len(t) = 0 THEN FALSE
    ELSE IF Len(s) = 0 THEN TRUE
    ELSE IF CharAt(s, 1) = CharAt(t, 1) THEN StrLess(StrFrom(s, 1), StrFrom(t, 1))
    ELSE Code(CharAt(s, 1)) < Code(CharAt(t, 1))

\* sep.join(list) on strings
RECURSIVE StrJoin(_, _)
StrJoin(sep, l) ==
    IF l = <<>> THEN ""
    ELSE IF Len(l) = 1 THEN l[1]
    ELSE l[1] \o sep \o StrJoin(sep, Tail(l))

\* The characters \s matches among those of the model, and str.strip() removes.
IsSpace(c) == c \in {" ", "\n", "\t"}


---------------------------------------------------------------------------
(* Document text, run-length encoded *)

Run(c, n) == [c |-> c, n |-> n]

\* The encoding normalised: no empty run, no two adjacent runs of one character.
\* Two normalised encodings put end to end: the runs that meet are merged when
\* they are of one character.
Glue(a, b) ==
    IF a = <<>> THEN b
    ELSE IF b = <<>> THEN a
    ELSE IF a[Len(a)].c = b[1].c
         THEN SubSeq(a, 1, Len(a) - 1) \o <<Run(b[1].c, a[Len(a)].n + b[1].n)>> \o Tail(b)
         ELSE a \o b

RECURSIVE Norm(_)
Norm(t) ==
    IF Len(t) = 0 THEN <<>>
    ELSE IF Len(t) = 1 THEN (IF t[1].n = 0 THEN <<>> ELSE <<t[1]>>)
    ELSE LET m == Len(t) \div 2 IN
         Glue(Norm(SubSeq(t, 1, m)), Norm(SubSeq(t, m + 1, Len(t))))

\* The text of a Python string literal
Text(s) == Norm([i \in 1..Len(s) |-> Run(CharAt(s, i), 1)])

\* len(text)
RECURSIVE TLen(_)
TLen(t) ==
    IF Len(t) = 0 THEN 0
    ELSE IF Len(t) = 1 THEN t[1].n
    ELSE LET m == Len(t) \div 2 IN
         TLen(SubSeq(t, 1, m)) + TLen(SubSeq(t, m + 1, Len(t)))

\* text[:k]
RECURSIVE TTake(_, _)
TTake(t, k) ==
    IF t = <<>> \/ k <= 0 THEN <<>>
    ELSE IF Head(t).n >= k THEN <<Run(Head(t).c, k)>>
    ELSE <<Head(t)>> \o TTake(Tail(t), k - Head(t).n)

\* text[k:]
RECURSIVE TDrop(_, _)
TDrop(t, k) ==
    IF t = <<>> \/ k <= 0 THEN t
    ELSE IF Head(t).n > k THEN <<Run(Head(t).c, Head(t).n - k)>> \o Tail(t)
    ELSE TDrop(Tail(t), k - Head(t).n)

\* a + b
TCat(a, b) == Norm(a \o b)

\* bool(text.strip()): the text has a character that is not white space
NonBlank(t) == \E i \in 1..Len(t) : ~IsSpace(t[i].c)

\* sep.join(list) on texts
RECURSIVE TJoin(_, _)
TJoin(sep, l) ==
    IF l = <<>> THEN <<>>
    ELSE IF Len(l) = 1 THEN l[1]
    ELSE TCat(l[1], TCat(sep, TJoin(sep, Tail(l))))

\* "\n\n[Content truncated...]"
TRUNCATION_MARKER == Text("\n\n[Content truncated...]")

---------------------------------------------------------------------------
(* Outcomes of a call: a returned value or a raised exception *)

Returned(v) == [tag |-> "return", value |-> v]
Raised(type, msg) == [tag |-> "raise", type |-> type, msg |-> msg]
ReadError(msg) == Raised("ReadError", msg)

IsReturn(o) == o.tag = "return"
IsRaise(o) == o.tag = "raise"
IsReadError(o) == o.tag = "raise" /\ o.type = "ReadError"

---------------------------------------------------------------------------
(* Paths.  A path is its sequence of parts; a file on disk is a record      *)
(* [parts, is_dir, probe]: parts relative to the search folder, and probe   *)
(* what the operating system and the format libraries answer for it.        *)

\* Path.name
PathName(parts) == IF parts = <<>> THEN "" ELSE parts[Len(parts)]

\* str(path)
PathStr(parts) == IF parts = <<>> THEN "." ELSE StrJoin("/", parts)

\* str.rfind("."), 1-based, 0 when absent
LastDot(name) ==
    IF \E i \in 1..Len(name) : CharAt(name, i) = "."
    THEN CHOOSE i \in 1..Len(name) :
            /\ CharAt(name, i) = "."
            /\ \A j \in (i + 1)..Len(name) : CharAt(name, j) # "."
    ELSE 0

\* Path.suffix: from the last dot of the name, unless the name starts or ends with it
Suffix(name) ==
    LET i == LastDot(name) IN
    IF 1 < i /\ i < Len(name) THEN StrFrom(name, i - 1) ELSE ""

---------------------------------------------------------------------------
(* DocumentReader *)

\* str(file) of the path read is given: the folder joined with the path below it
FilePath(file) == PathStr(folder \o file.parts)

\* str(e) of an OSError raised for a name: the error text, then the name quoted
OS_ERROR_TYPES == {"PermissionError", "IsADirectoryError", "FileNotFoundError"}

OsError(o, name) ==
    IF IsRaise(o) /\ o.type \in OS_ERROR_TYPES
    THEN Raised(o.type, o.msg \o ": '" \o name \o "'")
    ELSE o

\* file_reader.py _read_txt: the encodings are tried in order; read_text[i] is
\* what file.read_text(encoding=encodings[i]) does.
RECURSIVE TryEncodings(_, _)
TryEncodings(outs, name) ==
    IF outs = <<>> THEN ReadError("Could not decode file with any encoding")
    ELSE IF IsReturn(Head(outs)) THEN Head(outs)
    ELSE IF Head(outs).type \in {"UnicodeDecodeError", "LookupError"}
         THEN TryEncodings(Tail(outs), name)
    ELSE OsError(Head(outs), name)

_read_txt(file) == TryEncodings(file.probe.read_text, FilePath(file))

DIGITS == "0123456789"

\* str(n) for n >= 0
RECURSIVE Dec(_)
Dec(n) == IF n < 10 THEN CharAt(DIGITS, n + 1) ELSE Dec(n \div 10) \o CharAt(DIGITS, (n % 10) + 1)

\* _read_pdf's page loop: text_parts from page number k on
RECURSIVE PageParts(_, _)
PageParts(pages, k) ==
    IF pages = <<>> THEN <<>>
    ELSE LET pg == Head(pages)
             rest == PageParts(Tail(pages), k + 1)
         IN  IF IsRaise(pg)
             THEN <<Text("[Page " \o Dec(k) \o " error: " \o pg.msg \o "]")>> \o rest
             ELSE IF NonBlank(pg.value) THEN <<pg.value>> \o rest
             ELSE rest

_read_pdf(file) ==
    LET p == file.probe IN
    IF ~p.pypdf THEN ReadError("pypdf not installed. Run: pip install pypdf")
    ELSE IF IsRaise(p.open)
         THEN ReadError("PDF read failed: " \o OsError(p.open, FilePath(file)).msg)
    ELSE IF p.is_encrypted /\ IsRaise(p.decrypt)
         THEN ReadError("Encrypted PDF (password protected)")
    ELSE IF IsRaise(p.pages) THEN ReadError("PDF read failed: " \o p.pages.msg)
    ELSE LET text == TJoin(Text("\n\n"), PageParts(p.pages.value, 1)) IN
         IF ~NonBlank(text)
         THEN ReadError("No text content found (may be image-only PDF)")
         ELSE Returned(text)

_read_docx(file) ==
    LET p == file.probe IN
    IF IsRaise(p.zip) THEN ReadError("DOCX read failed: " \o p.zip.msg)
    ELSE IF ~p.document_xml
         THEN ReadError("Invalid DOCX structure (missing word/document.xml)")
    ELSE IF IsRaise(p.parse) THEN ReadError("DOCX read failed: " \o p.parse.msg)
    ELSE LET text == TJoin(<<>>, p.parse.value) IN
         IF ~NonBlank(text) THEN ReadError("No text content found")
         ELSE Returned(text)

\* _read_xlsx.  probe.load is load_workbook, probe.iter whether walking the
\* sheets with iter_rows goes through or raises (read-only workbooks parse a
\* sheet when it is walked).  A cell is [none, text] (text is str(cell)); rows with no cell
\* that is not None, and rows whose joined text is blank, are dropped.
NonNoneCells(row) == SelectSeq(row, LAMBDA c : ~c.none)

RECURSIVE XlsxRows(_)
XlsxRows(rows) ==
    IF rows = <<>> THEN <<>>
    ELSE LET cells == NonNoneCells(Head(rows))
             row_text == TJoin(Text(" | "), [i \in 1..Len(cells) |-> cells[i].text])
         IN  IF cells # <<>> /\ NonBlank(row_text)
             THEN <<row_text>> \o XlsxRows(Tail(rows))
             ELSE XlsxRows(Tail(rows))

RECURSIVE XlsxSheets(_)
XlsxSheets(sheets) ==
    IF sheets = <<>> THEN <<>>
    ELSE LET rows_text == XlsxRows(Head(sheets).rows) IN
         IF rows_text # <<>>
         THEN <<TCat(Text("Sheet: " \o Head(sheets).title \o "\n"),
                     TJoin(Text("\n"), rows_text))>> \o XlsxSheets(Tail(sheets))
         ELSE XlsxSheets(Tail(sheets))

_read_xlsx(file) ==
    LET p == file.probe IN
    IF ~p.openpyxl THEN ReadError("openpyxl not installed. Run: pip install openpyxl")
    ELSE IF IsRaise(p.load) THEN ReadError("XLSX read failed: " \o p.load.msg)
    ELSE IF IsRaise(p.iter) THEN ReadError("XLSX read failed: " \o p.iter.msg)
    ELSE LET sheets_text == XlsxSheets(p.load.value) IN
         IF sheets_text = <<>> THEN ReadError("No data found in workbook")
         ELSE Returned(TJoin(Text("\n\n"), sheets_text))

\* text.strip()
RECURSIVE LStrip(_)
LStrip(t) == IF t # <<>> /\ IsSpace(Head(t).c) THEN LStrip(Tail(t)) ELSE t

RECURSIVE RStrip(_)
RStrip(t) ==
    IF t # <<>> /\ IsSpace(t[Len(t)].c) THEN RStrip(SubSeq(t, 1, Len(t) - 1)) ELSE t

TStrip(t) == RStrip(LStrip(t))

\* _read_xls: one cell's contribution to row_values (<<>> when it adds nothing).
\* A cell is what sheet.cell_value does: a raise, a str or a float (units, tenths).
XlsCell(c) ==
    IF IsRaise(c) THEN <<>>
    ELSE IF c.value.kind = "float"
         THEN IF c.value.tenths = 0
              THEN <<Text(Dec(c.value.units))>>
              ELSE <<Text(Dec(c.value.units) \o "." \o Dec(c.value.tenths))>>
    ELSE IF c.value.text = <<>> THEN <<>>
    ELSE IF TStrip(c.value.text) # <<>> THEN <<TStrip(c.value.text)>>
    ELSE <<>>

RECURSIVE XlsRowValues(_)
XlsRowValues(row) ==
    IF row = <<>> THEN <<>> ELSE XlsCell(Head(row)) \o XlsRowValues(Tail(row))

RECURSIVE XlsRows(_)
XlsRows(rows) ==
    IF rows = <<>> THEN <<>>
    ELSE LET row_values == XlsRowValues(Head(rows)) IN
         IF row_values # <<>>
         THEN <<TJoin(Text(" | "), row_values)>> \o XlsRows(Tail(rows))
         ELSE XlsRows(Tail(rows))

RECURSIVE XlsSheets(_)
XlsSheets(sheets) ==
    IF sheets = <<>> THEN <<>>
    ELSE LET rows_text == XlsRows(Head(sheets).rows) IN
         IF rows_text # <<>>
         THEN <<TCat(Text("Sheet: " \o Head(sheets).name \o "\n"),
                     TJoin(Text("\n"), rows_text))>> \o XlsSheets(Tail(sheets))
         ELSE XlsSheets(Tail(sheets))

_read_xls(file) ==
    LET p == file.probe IN
    IF ~p.xlrd THEN ReadError("xlrd not installed. Run: pip install xlrd")
    ELSE IF IsRaise(p.open) THEN ReadError("XLS read failed: " \o p.open.msg)
    ELSE LET sheets_text == XlsSheets(p.open.value) IN
         IF sheets_text = <<>> THEN ReadError("No data found in workbook")
         ELSE Returned(TJoin(Text("\n\n"), sheets_text))

\* _read_doc.  probe.win32 is sys.platform == "win32"; probe.word is what the
\* Word automation block does (its text, or any raise) and probe.word_session
\* whether it started Word before that; probe.tools[i] what
\* subprocess.run of antiword, catdoc does and probe.office[i] what the
\* libreoffice, soffice conversion does: a raise, or a completed process
\* [returncode, stdout] / [returncode, temp_txt] (temp_txt: the text of the
\* sibling .txt file afterwards, NoFile when there is none).
NoFile == [exists |-> FALSE]
TxtFile(t) == [exists |-> TRUE, text |-> t]

DOC_HINTS ==
    "Could not read .doc file. Options:\n"
    \o "1. Install pywin32 (Windows with Word): pip install pywin32\n"
    \o "2. Install LibreOffice: https://www.libreoffice.org/\n"
    \o "3. Convert .doc to .docx for better compatibility"

\* The commands of _read_doc's two loops, in the order they are tried
DOC_TOOLS == <<"antiword", "catdoc">>
DOC_OFFICE == <<"libreoffice", "soffice">>

\* outs holds what the commands not yet tried do: the last Len(outs) of cmds
CommandAt(cmds, outs) == cmds[Len(cmds) - Len(outs) + 1]

RECURSIVE DocOffice(_)
DocOffice(outs) ==
    IF outs = <<>> THEN ReadError(DOC_HINTS)
    ELSE LET o == Head(outs) IN
         IF IsRaise(o)
         THEN IF o.type \in {"FileNotFoundError", "TimeoutExpired"}
              THEN DocOffice(Tail(outs))
              ELSE OsError(o, CommandAt(DOC_OFFICE, outs))
         ELSE IF o.value.returncode = 0 /\ o.value.temp_txt.exists
              THEN Returned(o.value.temp_txt.text)
         ELSE DocOffice(Tail(outs))

\* The tool loop taking any output of a tool that exits 0, blank or not
RECURSIVE DocToolsAnyOutput(_, _)
DocToolsAnyOutput(outs, office) ==
    IF outs = <<>> THEN DocOffice(office)
    ELSE LET o == Head(outs) IN
         IF IsRaise(o)
         THEN IF o.type \in {"FileNotFoundError", "TimeoutExpired"}
              THEN DocToolsAnyOutput(Tail(outs), office)
              ELSE OsError(o, CommandAt(DOC_TOOLS, outs))
         ELSE IF o.value.returncode = 0
              THEN Returned(o.value.stdout)
         ELSE DocToolsAnyOutput(Tail(outs), office)

RECURSIVE DocTools(_, _)
DocTools(outs, office) ==
    IF outs = <<>> THEN DocOffice(office)
    ELSE LET o == Head(outs) IN
         IF IsRaise(o)
         THEN IF o.type \in {"FileNotFoundError", "TimeoutExpired"}
              THEN DocTools(Tail(outs), office)
              ELSE OsError(o, CommandAt(DOC_TOOLS, outs))
         ELSE IF o.value.returncode = 0 /\ NonBlank(o.value.stdout)
              THEN Returned(o.value.stdout)
         ELSE DocTools(Tail(outs), office)

_read_doc(file) ==
    LET p == file.probe IN
    IF p.win32
    THEN IF IsReturn(p.word) THEN p.word ELSE DocOffice(p.office)
    ELSE DocTools(p.tools, p.office)

\* _read_image.  probe.open is Image.open; probe.ocr[1] the chi_sim+eng call and
\* probe.ocr[2] the eng call of pytesseract.image_to_string.
OcrText(text) ==
    IF ~NonBlank(text) THEN ReadError("No text could be extracted from image")
    ELSE Returned(text)

\* The OCR failure raised as a ReadError in place of the marker text
OcrFailedRaises(e) == ReadError("OCR failed: " \o e.msg)

OcrFailed(e) == Returned(Text("[OCR failed: " \o e.msg \o "]"))

_read_image(file) ==
    LET p == file.probe IN
    IF ~p.ocr_deps
    THEN ReadError("OCR dependencies not installed. Run: pip install pytesseract Pillow")
    ELSE IF IsRaise(p.open) THEN OcrFailed(p.open)
    ELSE IF IsReturn(p.ocr[1]) THEN OcrText(p.ocr[1].value)
    ELSE IF p.ocr[1].type # "TesseractError" THEN OcrFailed(p.ocr[1])
    ELSE IF IsReturn(p.ocr[2]) THEN OcrText(p.ocr[2].value)
    ELSE OcrFailed(p.ocr[2])

\* DocumentReader.read's dispatch table: the reader of an extension
SUPPORTED == {".txt", ".pdf", ".docx", ".doc", ".xlsx", ".xls", ".jpg", ".jpeg", ".png", ".md"}

Reader(ext, file) ==
    CASE ext \in {".txt", ".md"} -> _read_txt(file)
      [] ext = ".pdf" -> _read_pdf(file)
      [] ext = ".docx" -> _read_docx(file)
      [] ext = ".doc" -> _read_doc(file)
      [] ext = ".xlsx" -> _read_xlsx(file)
      [] ext = ".xls" -> _read_xls(file)
      [] ext \in {".jpg", ".jpeg", ".png"} -> _read_image(file)

\* Truncate with the ceiling test off by one and the cut one character short
TruncateOffByOne(text) ==
    IF TLen(text) >= MAX_CHARS
    THEN TCat(TTake(text, MAX_CHARS - 1), TRUNCATION_MARKER)
    ELSE text

\* read's "Truncate if too long"
Truncate(text) ==
    IF TLen(text) > MAX_CHARS
    THEN TCat(TTake(text, MAX_CHARS), TRUNCATION_MARKER)
    ELSE text

\* read without its "except Exception" clause: the exception escapes as it is
WrapErrorMissing(file, o) == o

\* read's except clauses: a ReadError passes, any other exception is wrapped
WrapError(file, o) ==
    IF o.type = "ReadError" THEN o
    ELSE ReadError(PathName(file.parts) \o ": " \o o.type \o ": " \o o.msg)

\* DocumentReader.read(file)
read(file) ==
    LET ext == Lower(Suffix(PathName(file.parts))) IN
    IF ext \notin SUPPORTED THEN ReadError("Unsupported format: " \o ext)
    ELSE LET o == Reader(ext, file) IN
         IF IsReturn(o) THEN Returned(Truncate(o.value))
         ELSE WrapError(file, o)

---------------------------------------------------------------------------
(* The files the model reads: what the libraries and the operating system   *)
(* can answer for a file of each format.                                     *)

SHORT == Text("ab")
BLANK == Text("  ")

\* Texts around the MAX_CHARS ceiling
LongTexts ==
    {Norm(<<Run("a", MAX_CHARS - 1), Run("b", d)>>) : d \in 0..(MaxOver + 1)}
    \cup {Norm(<<Run("a", 5), Run("\n", MAX_CHARS + d)>>) : d \in 0..MaxOver}

SampleTexts == {<<>>, BLANK, SHORT, Text(" a b\n")} \cup LongTexts

DECODE_ERROR == Raised("UnicodeDecodeError", "invalid start byte")
LOOKUP_ERROR == Raised("LookupError", "unknown encoding")
OS_ERROR == Raised("PermissionError", "[Errno 13] Permission denied")
IS_A_DIRECTORY == Raised("IsADirectoryError", "[Errno 21] Is a directory")

\* read_text per encoding (utf-8, gbk, gb2312, latin-1): latin-1 decodes every
\* byte; a file that cannot be opened fails at the first attempt.
TxtProbes ==
    {[read_text |-> <<OS_ERROR, OS_ERROR, OS_ERROR, OS_ERROR>>],
     [read_text |-> <<IS_A_DIRECTORY, IS_A_DIRECTORY, IS_A_DIRECTORY, IS_A_DIRECTORY>>]}
    \cup {[read_text |-> <<Returned(t), Returned(t), Returned(t), Returned(t)>>] :
             t \in SampleTexts}
    \cup {[read_text |-> o] :
             o \in {f \in [1..4 -> {Returned(SHORT), Returned(BLANK), DECODE_ERROR, LOOKUP_ERROR}] :
                       f[4] # DECODE_ERROR}}

PageOutcomes == {Returned(SHORT), Returned(<<>>), Returned(BLANK), Raised("ValueError", "bad page")}
PageLists ==
    {<<>>} \cup {<<a>> : a \in PageOutcomes}
    \cup {<<a, b>> : a \in PageOutcomes, b \in PageOutcomes}
    \cup {<<Returned(t)>> : t \in LongTexts}

NOT_DECRYPTED == Raised("FileNotDecryptedError", "File has not been decrypted")
PDF_OPEN_ERROR == Raised("PdfReadError", "EOF marker not found")

\* decrypt('') of pypdf returns a PasswordType and raises only when it cannot
\* run the cipher; the pages of a reader left undecrypted raise on access.
DecryptOutcomes ==
    {Returned("USER_PASSWORD"), Returned("NOT_DECRYPTED"),
     Raised("DependencyError", "cryptography>=3.1 is required for AES algorithm")}

PdfProbe(pypdf, open, enc, dec, pages) ==
    [pypdf |-> pypdf, open |-> open, is_encrypted |-> enc, decrypt |-> dec, pages |-> pages]

PdfProbes ==
    {PdfProbe(FALSE, PDF_OPEN_ERROR, FALSE, Returned("USER_PASSWORD"), NOT_DECRYPTED),
     PdfProbe(TRUE, PDF_OPEN_ERROR, FALSE, Returned("USER_PASSWORD"), NOT_DECRYPTED)}
    \cup {PdfProbe(TRUE, Returned("reader"), FALSE, Returned("USER_PASSWORD"), Returned(ps)) :
             ps \in PageLists}
    \cup {PdfProbe(TRUE, Returned("reader"), TRUE, Returned("USER_PASSWORD"), Returned(ps)) :
             ps \in PageLists}
    \cup {PdfProbe(TRUE, Returned("reader"), TRUE, d, NOT_DECRYPTED) :
             d \in DecryptOutcomes \ {Returned("USER_PASSWORD")}}

\* A PDF that the empty password does not open
EncryptedPdf(probe) ==
    /\ probe.pypdf /\ IsReturn(probe.open) /\ probe.is_encrypted
    /\ probe.decrypt # Returned("USER_PASSWORD")

DocxProbes ==
    {[zip |-> Raised("BadZipFile", "File is not a zip file"), document_xml |-> FALSE,
      parse |-> Returned(<<>>)],
     [zip |-> Returned("zip"), document_xml |-> FALSE, parse |-> Returned(<<>>)],
     [zip |-> Returned("zip"), document_xml |-> TRUE,
      parse |-> Raised("ParseError", "not well-formed (invalid token): line 1, column 0")]}
    \cup {[zip |-> Returned("zip"), document_xml |-> TRUE, parse |-> Returned(runs)] :
             runs \in {<<>>, <<BLANK>>, <<SHORT>>, <<SHORT, BLANK, SHORT>>}
                      \cup {<<t>> : t \in LongTexts}}

Cell(t) == [none |-> FALSE, text |-> t]
NONE_CELL == [none |-> TRUE, text |-> <<>>]

XlsxRowsSamples ==
    {<<>>, <<<<NONE_CELL>>>>, <<<<Cell(BLANK)>>>>, <<<<Cell(SHORT), NONE_CELL, Cell(<<>>)>>>>,
     <<<<NONE_CELL>>, <<Cell(SHORT), Cell(SHORT)>>, <<Cell(SHORT)>>>>}
    \cup {<<<<Cell(t)>>>> : t \in LongTexts}

ITER_OK == Returned("rows")
ITER_ERROR == Raised("ParseError", "not well-formed (invalid token): line 1, column 0")

XlsxProbes ==
    {[openpyxl |-> FALSE, load |-> Returned(<<>>), iter |-> ITER_OK],
     [openpyxl |-> TRUE, load |-> Raised("InvalidFileException", "not a workbook"), iter |-> ITER_OK],
     [openpyxl |-> TRUE, load |-> Returned(<<>>), iter |-> ITER_OK],
     [openpyxl |-> TRUE, load |-> Returned(<<[title |-> "S", rows |-> <<<<Cell(SHORT)>>>>]>>),
      iter |-> ITER_ERROR]}
    \cup {[openpyxl |-> TRUE, load |-> Returned(<<[title |-> "S", rows |-> r]>>), iter |-> ITER_OK] :
             r \in XlsxRowsSamples}
    \cup {[openpyxl |-> TRUE, iter |-> ITER_OK,
           load |-> Returned(<<[title |-> "S", rows |-> r], [title |-> "T", rows |-> q]>>)] :
             r \in XlsxRowsSamples \ {<<<<Cell(t)>>>> : t \in LongTexts},
             q \in {<<>>, <<<<Cell(SHORT)>>>>}}

StrCell(t) == Returned([kind |-> "str", text |-> t])
FloatCell(u, d) == Returned([kind |-> "float", units |-> u, tenths |-> d])

XlsRowsSamples ==
    {<<>>, <<<<StrCell(<<>>)>>>>, <<<<StrCell(BLANK)>>>>,
     <<<<StrCell(Text(" ab ")), FloatCell(42, 0), FloatCell(3, 5)>>>>,
     <<<<Raised("XLRDError", "bad cell"), StrCell(SHORT)>>, <<StrCell(<<>>)>>, <<FloatCell(0, 0)>>>>}
    \cup {<<<<StrCell(t)>>>> : t \in LongTexts}

XlsProbes ==
    {[xlrd |-> FALSE, open |-> Returned(<<>>)],
     [xlrd |-> TRUE, open |-> Raised("XLRDError", "Unsupported format, or corrupt file")],
     [xlrd |-> TRUE, open |-> Returned(<<>>)]}
    \cup {[xlrd |-> TRUE, open |-> Returned(<<[name |-> "S", rows |-> r]>>)] :
             r \in XlsRowsSamples}
    \cup {[xlrd |-> TRUE,
           open |-> Returned(<<[name |-> "S", rows |-> r], [name |-> "T", rows |-> q]>>)] :
             r \in XlsRowsSamples \ {<<<<StrCell(t)>>>> : t \in LongTexts},
             q \in {<<>>, <<<<StrCell(SHORT)>>>>}}

NOT_FOUND == Raised("FileNotFoundError", "[Errno 2] No such file or directory")
TIMEOUT == Raised("TimeoutExpired", "timed out")

ToolOutcomes ==
    {NOT_FOUND, TIMEOUT, OS_ERROR,
     Returned([returncode |-> 0, stdout |-> SHORT]),
     Returned([returncode |-> 0, stdout |-> BLANK]),
     Returned([returncode |-> 1, stdout |-> <<>>])}

OfficeOutcomes ==
    {NOT_FOUND, TIMEOUT, OS_ERROR,
     Returned([returncode |-> 0, temp_txt |-> TxtFile(SHORT)]),
     Returned([returncode |-> 0, temp_txt |-> NoFile]),
     Returned([returncode |-> 1, temp_txt |-> NoFile]),
     Returned([returncode |-> 1, temp_txt |-> TxtFile(SHORT)])}

WORD_OPEN_ERROR == Raised("com_error", "Word could not open the document")

WordOutcomes ==
    {Returned(SHORT), Raised("ImportError", "No module named 'win32com'"),
     Raised("com_error", "Word is not installed"), WORD_OPEN_ERROR}

\* Dispatch('Word.Application') started Word: always when the block returned
\* the text, never when the import or Dispatch itself failed
WordSession(w) == IsReturn(w) \/ w = WORD_OPEN_ERROR

DocProbes ==
    {[win32 |-> TRUE, word |-> w, word_session |-> WordSession(w),
      tools |-> <<NOT_FOUND, NOT_FOUND>>, office |-> <<a, b>>] :
        w \in WordOutcomes, a \in OfficeOutcomes, b \in OfficeOutcomes}
    \cup {[win32 |-> FALSE, word |-> Raised("ImportError", "No module named 'win32com'"),
           word_session |-> FALSE, tools |-> <<t, u>>, office |-> <<a, b>>] :
        t \in ToolOutcomes, u \in ToolOutcomes, a \in OfficeOutcomes, b \in OfficeOutcomes}
    \cup {[win32 |-> FALSE, word |-> Raised("ImportError", "No module named 'win32com'"),
           word_session |-> FALSE,
           tools |-> <<Returned([returncode |-> 0, stdout |-> t]), NOT_FOUND>>,
           office |-> <<NOT_FOUND, NOT_FOUND>>] : t \in LongTexts}

TESS_ERROR == Raised("TesseractError", "Failed loading language 'chi_sim'")
TESS_MISSING == Raised("TesseractNotFoundError", "tesseract is not installed")

OcrOutcomes == {Returned(SHORT), Returned(BLANK), TESS_ERROR, TESS_MISSING}

ImageProbes ==
    {[ocr_deps |-> FALSE, open |-> Returned("image"), ocr |-> <<TESS_MISSING, TESS_MISSING>>],
     [ocr_deps |-> TRUE, open |-> Raised("UnidentifiedImageError", "cannot identify image file"),
      ocr |-> <<TESS_MISSING, TESS_MISSING>>]}
    \cup {[ocr_deps |-> TRUE, open |-> Returned("image"), ocr |-> <<a, b>>] :
             a \in OcrOutcomes, b \in OcrOutcomes}
    \cup {[ocr_deps |-> TRUE, open |-> Returned("image"), ocr |-> <<Returned(t), TESS_MISSING>>] :
             t \in LongTexts}

NO_PROBE == [none |-> TRUE]

\* What can answer for a file of a given name: the probes of its reader.
ProbesFor(name) ==
    LET ext == Lower(Suffix(name)) IN
    CASE ext \in {".txt", ".md"} -> TxtProbes
      [] ext = ".pdf" -> PdfProbes
      [] ext = ".docx" -> DocxProbes
      [] ext = ".doc" -> DocProbes
      [] ext = ".xlsx" -> XlsxProbes
      [] ext = ".xls" -> XlsProbes
      [] ext \in {".jpg", ".jpeg", ".png"} -> ImageProbes
      [] OTHER -> {NO_PROBE}

File(parts, probe) == [parts |-> parts, is_dir |-> FALSE, probe |-> probe]

ReadNames ==
    {"a.txt", "n.md", "B.PDF", "b.pdf", "c.docx", "d.doc", "e.xlsx", "f.xls",
     "g.jpg", "h.jpeg", "i.png", "j.csv", "noext", ".txt", "k.", "l.tar.gz"}

ReadInputs == UNION {{File(<<n>>, p) : p \in ProbesFor(n)} : n \in ReadNames}

---------------------------------------------------------------------------
(* What a read runs and what it leaves open *)

\* _read_doc: the providers it runs, in the order it runs them

\* A subprocess.run that raised one of the two exceptions the loops catch
ToolMissing(o) == IsRaise(o) /\ o.type \in {"FileNotFoundError", "TimeoutExpired"}

RECURSIVE DocOfficeCalls(_, _)
DocOfficeCalls(outs, k) ==
    IF outs = <<>> THEN <<>>
    ELSE LET o == Head(outs)
             goes_on == \/ ToolMissing(o)
                        \/ IsReturn(o) /\ ~(o.value.returncode = 0 /\ o.value.temp_txt.exists)
         IN  <<DOC_OFFICE[k]>> \o (IF goes_on THEN DocOfficeCalls(Tail(outs), k + 1) ELSE <<>>)

RECURSIVE DocToolCalls(_, _, _)
DocToolCalls(outs, k, office) ==
    IF outs = <<>> THEN DocOfficeCalls(office, 1)
    ELSE LET o == Head(outs)
             goes_on == \/ ToolMissing(o)
                        \/ IsReturn(o) /\ ~(o.value.returncode = 0 /\ NonBlank(o.value.stdout))
         IN  <<DOC_TOOLS[k]>> \o (IF goes_on THEN DocToolCalls(Tail(outs), k + 1, office) ELSE <<>>)

DocCalls(file) ==
    LET p == file.probe IN
    IF p.win32
    THEN <<"word">> \o (IF IsReturn(p.word) THEN <<>> ELSE DocOfficeCalls(p.office, 1))
    ELSE DocToolCalls(p.tools, 1, p.office)

\* _read_image: the languages image_to_string is called with, in order
OcrCalls(file) ==
    LET p == file.probe IN
    IF ~p.ocr_deps \/ IsRaise(p.open) THEN <<>>
    ELSE <<"chi_sim+eng">>
         \o (IF IsRaise(p.ocr[1]) /\ p.ocr[1].type = "TesseractError" THEN <<"eng">> ELSE <<>>)

\* The providers and engines read(file) runs
Calls(file) ==
    LET ext == Lower(Suffix(PathName(file.parts))) IN
    CASE ext = ".doc" -> DocCalls(file)
      [] ext \in {".jpg", ".jpeg", ".png"} -> OcrCalls(file)
      [] OTHER -> <<>>

\* The sibling .txt file of a conversion: whether it is there when the office
\* loop is left.  A conversion that exits 0 with the file has it read and
\* unlinked; any other leaves what it wrote.
RECURSIVE TempLeft(_, _)
TempLeft(outs, left) ==
    IF outs = <<>> THEN left
    ELSE LET o == Head(outs) IN
         IF IsRaise(o)
         THEN IF ToolMissing(o) THEN TempLeft(Tail(outs), left) ELSE left
         ELSE IF o.value.returncode = 0 /\ o.value.temp_txt.exists THEN FALSE
         ELSE TempLeft(Tail(outs), o.value.temp_txt.exists)

\* The sibling .txt file was there at some point of the office loop: one of
\* the conversions the loop ran came back with the file in place
RECURSIVE TempMade(_)
TempMade(outs) ==
    IF outs = <<>> THEN FALSE
    ELSE LET o == Head(outs) IN
         IF IsRaise(o)
         THEN IF ToolMissing(o) THEN TempMade(Tail(outs)) ELSE FALSE
         ELSE IF o.value.temp_txt.exists THEN TRUE
         ELSE TempMade(Tail(outs))

\* The office loop is reached: Word did not return and no tool gave text
OfficeReached(file) ==
    \E i \in 1..Len(DocCalls(file)) : DocCalls(file)[i] = DOC_OFFICE[1]

\* The resources each reader opens, and those it has closed when it returns
\* or raises.  with zipfile.ZipFile(...) closes on every exit; wb.close() comes
\* after the sheet loop; the xlrd workbook is opened on demand and only its
\* sheets are unloaded; doc.Close and word.Quit come after the text is taken;
\* subprocess.run waits for the process or kills it.
Opened(file) ==
    LET ext == Lower(Suffix(PathName(file.parts)))
        p == file.probe
    IN  CASE ext = ".docx" -> IF IsReturn(p.zip) THEN {"zip archive"} ELSE {}
          [] ext = ".xlsx" -> IF p.openpyxl /\ IsReturn(p.load) THEN {"xlsx workbook"} ELSE {}
          [] ext = ".xls" -> IF p.xlrd /\ IsReturn(p.open) THEN {"xls workbook"} ELSE {}
          [] ext = ".doc" ->
                (IF p.win32 /\ p.word_session THEN {"word session"} ELSE {})
                \cup {DocCalls(file)[i] : i \in {j \in 1..Len(DocCalls(file)) :
                                                    DocCalls(file)[j] # "word"}}
                \cup (IF OfficeReached(file) /\ TempMade(p.office)
                      THEN {"temp_txt"} ELSE {})
          [] OTHER -> {}

Closed(file) ==
    LET ext == Lower(Suffix(PathName(file.parts)))
        p == file.probe
    IN  CASE ext = ".docx" -> IF IsReturn(p.zip) THEN {"zip archive"} ELSE {}
          [] ext = ".xlsx" ->
                IF p.openpyxl /\ IsReturn(p.load) /\ IsReturn(p.iter)
                THEN {"xlsx workbook"} ELSE {}
          [] ext = ".xls" -> {}
          [] ext = ".doc" ->
                (IF p.win32 /\ IsReturn(p.word) THEN {"word session"} ELSE {})
                \cup {DocCalls(file)[i] : i \in {j \in 1..Len(DocCalls(file)) :
                                                    DocCalls(file)[j] # "word"}}
                \cup (IF OfficeReached(file) /\ TempMade(p.office)
                         /\ ~TempLeft(p.office, FALSE)
                      THEN {"temp_txt"} ELSE {})
          [] OTHER -> {}

Held(file) == Opened(file) \ Closed(file)

---------------------------------------------------------------------------
(* Values of the variables a behaviour does not use *)

NoValue == [tag |-> "none"]
NoReport == <<>>
NoExit == -1

NEW_STATS ==
    [total_found |-> 0, successfully_read |-> 0, skipped |-> 0, matched |-> 0,
     errors |-> <<>>]

SearchIdle ==
    /\ folder = <<>> /\ folder_kind = "dir" /\ tree = {} /\ query = ""
    /\ max_docs = DEFAULT_MAX_DOCS /\ batch_size = DEFAULT_BATCH_SIZE
    /\ analyzer = "standalone" /\ files = <<>> /\ path_match_results = <<>>
    /\ idx = 0 /\ attempts = <<>> /\ documents = <<>> /\ stats = NEW_STATS
    /\ prompts = <<>> /\ all_analyses = <<>> /\ results = <<>>
    /\ report = NoReport /\ exit_code = NoExit
    /\ calls = <<>> /\ held = {}

---------------------------------------------------------------------------
(* SpecRead: DocumentReader.read on one file *)

InitRead ==
    /\ mode = "read" /\ pc = "call" /\ arg \in ReadInputs /\ ret = NoValue
    /\ SearchIdle

ReadFile ==
    /\ mode = "read" /\ pc = "call"
    /\ ret' = read(arg)
    /\ calls' = Calls(arg)
    /\ held' = Held(arg)
    /\ pc' = "done"
    /\ UNCHANGED <<mode, arg>>
    /\ UNCHANGED searchVars

NextRead == ReadFile

SpecRead == InitRead /\ [][NextRead]_vars

\* The extension read dispatches on, and what the format reader itself did
ReadExt == Lower(Suffix(PathName(arg.parts)))
ReaderOutcome == Reader(ReadExt, arg)
ReadDone == mode = "read" /\ pc = "done"

\* The length of "\n\n[Content truncated...]"
MARKER_LEN == 24

\* C1: whatever text a format reader produces, read returns at most MAX_CHARS
\* characters plus the truncation marker: a text longer than MAX_CHARS comes
\* back as its first MAX_CHARS characters followed by the marker, a text of at
\* most MAX_CHARS characters comes back unchanged.
C1_Truncation ==
    (ReadDone /\ ReadExt \in SUPPORTED /\ IsReturn(ReaderOutcome)) =>
        LET text == ReaderOutcome.value IN
        /\ IsReturn(ret)
        /\ TLen(ret.value) <= MAX_CHARS + MARKER_LEN
        /\ TLen(text) > MAX_CHARS =>
              /\ TTake(ret.value, MAX_CHARS) = TTake(text, MAX_CHARS)
              /\ TDrop(ret.value, MAX_CHARS) = Text("\n\n[Content truncated...]")
              /\ TLen(ret.value) = MAX_CHARS + MARKER_LEN
        /\ TLen(text) <= MAX_CHARS => ret.value = text

\* A reader produced one character more than the ceiling and read cut it.
C1_Witness ==
    /\ ReadDone /\ ReadExt \in SUPPORTED /\ IsReturn(ReaderOutcome)
    /\ TLen(ReaderOutcome.value) = MAX_CHARS + 1
    /\ IsReturn(ret) /\ TLen(ret.value) = MAX_CHARS + MARKER_LEN

\* The extensions the claim lists as supported
CLAIMED_EXTENSIONS ==
    {".txt", ".md", ".pdf", ".docx", ".doc", ".xlsx", ".xls", ".jpg", ".jpeg", ".png"}

\* C2: for a supported extension read returns text or raises ReadError, never
\* another exception, whatever fails inside the format reader; for any other
\* extension it raises ReadError "Unsupported format".
C2_TypedError ==
    ReadDone =>
        /\ IsReturn(ret) \/ IsReadError(ret)
        /\ ReadExt \in CLAIMED_EXTENSIONS =>
              (IsReturn(ret) <=> IsReturn(ReaderOutcome))
        /\ ReadExt \notin CLAIMED_EXTENSIONS =>
              /\ IsReadError(ret)
              /\ StrTo(ret.msg, Len("Unsupported format")) = "Unsupported format"

\* A format reader let an exception other than ReadError escape and read
\* raised a ReadError naming the file and the exception.
C2_Witness ==
    /\ ReadDone /\ ReadExt \in CLAIMED_EXTENSIONS
    /\ IsRaise(ReaderOutcome) /\ ReaderOutcome.type = "PermissionError"
    /\ IsReadError(ret) /\ Contains(ret.msg, "PermissionError")

---------------------------------------------------------------------------
(* DocumentSearcher._query_matches_path *)

\* The separators of re.split(r'[\s,...;...]') that the model's queries use
\* (the full-width comma, enumeration comma and semicolon are split on alike).
IsSeparator(c) == IsSpace(c) \/ c \in {",", ";"}

\* re.split on the separators: the pieces, empty ones included
RECURSIVE SplitFrom(_, _)
SplitFrom(q, piece) ==
    IF Len(q) = 0 THEN <<piece>>
    ELSE IF IsSeparator(CharAt(q, 1)) THEN <<piece>> \o SplitFrom(StrFrom(q, 1), "")
    ELSE SplitFrom(StrFrom(q, 1), piece \o CharAt(q, 1))

\* terms = [t.strip().lower() for t in terms if t.strip()]
QueryTerms(q) ==
    LET pieces == SelectSeq(SplitFrom(q, ""), LAMBDA t : Len(t) > 0) IN
    [i \in 1..Len(pieces) |-> Lower(pieces[i])]

\* The names of file.parents
ParentNames(parts) == IF parts = <<>> THEN <<>> ELSE SubSeq(parts, 1, Len(parts) - 1)

\* The scores of the file name and of the directories swapped
TermScoreSwapped(parts, term) ==
    IF Contains(Lower(PathName(parts)), term) THEN 30
    ELSE IF \E i \in 1..Len(ParentNames(parts)) : Contains(Lower(ParentNames(parts)[i]), term)
         THEN 40
    ELSE 20

\* The score of one matched term, by where it is found
TermScore(parts, term) ==
    IF Contains(Lower(PathName(parts)), term) THEN 40
    ELSE IF \E i \in 1..Len(ParentNames(parts)) : Contains(Lower(ParentNames(parts)[i]), term)
         THEN 30
    ELSE 20

_query_matches_path(parts, q) ==
    LET path_str == Lower(PathStr(parts))
        matched == SelectSeq(QueryTerms(q), LAMBDA t : Contains(path_str, t))
        relevance == SeqSum([i \in 1..Len(matched) |-> TermScore(parts, matched[i])])
    IN  IF matched = <<>>
        THEN [is_match |-> FALSE, matched_terms |-> <<>>, relevance |-> 0]
        ELSE [is_match |-> TRUE, matched_terms |-> matched,
              relevance |-> Min(relevance, 100)]

---------------------------------------------------------------------------
(* SpecPath: _query_matches_path on one path and one query *)

\* A query has at most MaxTerms terms.
MaxTerms == 3

PathInputs ==
    {<<"rep.txt">>, <<"docs", "rep.txt">>, <<"rep", "b.pdf">>, <<"docs", "rep", "b.pdf">>,
     <<"rep", "rep.txt">>, <<"Rep", "Doc.md">>, <<"docs", "a", "b.txt">>}

TermInputs == {"rep", "Rep", "b", "docs", "rep/b", "txt", "x"}

RECURSIVE TermLists(_)
TermLists(n) ==
    IF n = 0 THEN {<<>>}
    ELSE TermLists(n - 1)
         \cup {l \o <<t>> : l \in {m \in TermLists(n - 1) : Len(m) = n - 1}, t \in TermInputs}

QueryInputs ==
    {StrJoin(sep, l) : sep \in {" ", ", "}, l \in TermLists(MaxTerms)}

InitPath ==
    /\ mode = "path" /\ pc = "call" /\ ret = NoValue
    /\ arg \in {[file |-> f, query |-> q] : f \in PathInputs, q \in QueryInputs}
    /\ SearchIdle

ScorePath ==
    /\ mode = "path" /\ pc = "call"
    /\ ret' = _query_matches_path(arg.file, arg.query)
    /\ pc' = "done"
    /\ UNCHANGED <<mode, arg>>
    /\ UNCHANGED searchVars
    /\ UNCHANGED readerVars

NextPath == ScorePath

SpecPath == InitPath /\ [][NextPath]_vars

PathDone == mode = "path" /\ pc = "done"

RECURSIVE SetSum(_, _)
SetSum(S, f) ==
    IF S = {} THEN 0
    ELSE LET x == CHOOSE y \in S : TRUE IN f[x] + SetSum(S \ {x}, f)

\* The distinct terms of the query that occur in the lowercased path
MatchedTermSet(parts, q) ==
    {t \in {QueryTerms(q)[i] : i \in 1..Len(QueryTerms(q))} : Contains(Lower(PathStr(parts)), t)}

\* What the claim grants one term: 40 in the file name, else 30 in an
\* ancestor directory name, else 20
ClaimedContribution(parts, t) ==
    IF Contains(Lower(parts[Len(parts)]), t) THEN 40
    ELSE IF \E i \in 1..(Len(parts) - 1) : Contains(Lower(parts[i]), t) THEN 30
    ELSE 20

\* C4: every matched term contributes 40, 30 or 20 by where it occurs, the
\* contributions are summed over the DISTINCT matched terms and the score is
\* capped at 100.
C4_PathScoreDistinct ==
    PathDone =>
        LET T == MatchedTermSet(arg.file, arg.query)
            Contribution == [t \in T |-> ClaimedContribution(arg.file, t)]
        IN  /\ ret.is_match <=> T # {}
            /\ ret.relevance = Min(100, SetSum(T, Contribution))

\* The same sum taken over the matched terms as often as the query repeats
\* them, which is what the scoring loop adds up.
PathScoreWithRepeats ==
    PathDone =>
        LET terms == QueryTerms(arg.query)
            hits == {i \in 1..Len(terms) : Contains(Lower(PathStr(arg.file)), terms[i])}
            Contribution == [i \in hits |-> ClaimedContribution(arg.file, terms[i])]
        IN  /\ ret.is_match <=> hits # {}
            /\ ret.relevance = Min(100, SetSum(hits, Contribution))

---------------------------------------------------------------------------
(* DocumentSearcher.discover_files *)

\* The extensions set of discover_files, in one iteration order
EXTENSIONS == <<".pdf", ".docx", ".doc", ".xlsx", ".xls", ".txt", ".md", ".jpg", ".jpeg", ".png">>

\* A directory, and what reading it as a document answers
DirProbe(name) ==
    IF Lower(Suffix(name)) = ".pdf"
    THEN PdfProbe(TRUE, IS_A_DIRECTORY, FALSE, Returned("USER_PASSWORD"), NOT_DECRYPTED)
    ELSE [read_text |-> <<IS_A_DIRECTORY, IS_A_DIRECTORY, IS_A_DIRECTORY, IS_A_DIRECTORY>>]

Dir(parts) == [parts |-> parts, is_dir |-> TRUE, probe |-> DirProbe(PathName(parts))]

\* Everything the recursive walk of the folder meets: the entries of the tree
\* and the directories that hold them
Walk(t) ==
    t \cup UNION {{Dir(SubSeq(e.parts, 1, k)) : k \in 1..(Len(e.parts) - 1)} : e \in t}

\* folder.rglob('*' + ext): the entries, files or directories, whose name ends
\* with ext (the match is case-sensitive)
Rglob(t, ext) == {e \in Walk(t) : EndsWith(PathName(e.parts), ext)}

\* a < b on paths: part by part
RECURSIVE PartsLess(_, _)
PartsLess(a, b) ==
    IF b = <<>> THEN FALSE
    ELSE IF a = <<>> THEN TRUE
    ELSE IF Head(a) = Head(b) THEN PartsLess(Tail(a), Tail(b))
    ELSE StrLess(Head(a), Head(b))

\* list(generator): the members of a set in the order the walk yields them
RECURSIVE ListOf(_)
ListOf(S) ==
    IF S = {} THEN <<>>
    ELSE LET e == CHOOSE x \in S : \A y \in S : ~PartsLess(y.parts, x.parts) IN
         <<e>> \o ListOf(S \ {e})

\* files.extend(found) for every extension
RECURSIVE Found(_, _)
Found(t, exts) ==
    IF exts = <<>> THEN <<>> ELSE ListOf(Rglob(t, Head(exts))) \o Found(t, Tail(exts))

\* sorted(files): a stable insertion sort by path
RECURSIVE Insert(_, _)
Insert(e, l) ==
    IF l = <<>> THEN <<e>>
    ELSE IF PartsLess(e.parts, Head(l).parts) THEN <<e>> \o l
    ELSE <<Head(l)>> \o Insert(e, Tail(l))

RECURSIVE Sorted(_)
Sorted(l) == IF l = <<>> THEN <<>> ELSE Insert(l[Len(l)], Sorted(SubSeq(l, 1, Len(l) - 1)))

\* list[:k], k of either sign
SliceTo(l, k) ==
    IF k >= 0 THEN SubSeq(l, 1, Min(k, Len(l)))
    ELSE SubSeq(l, 1, Len(l) + k)

\* "Sort and limit": max_docs 0 is falsy and leaves the list whole
Limit(l, m) == IF m # 0 /\ Len(l) > m THEN SliceTo(l, m) ELSE l

discover_files(t, m) == Limit(Sorted(Found(t, EXTENSIONS)), m)

---------------------------------------------------------------------------
(* SpecDiscover: discover_files on one folder *)

\* --max-docs is any integer, 50 when not given
MaxDocsInputs == {-1, 0, 1, 2, DEFAULT_MAX_DOCS}

FolderInputs == {<<>>, <<"docs">>}

\* A default answer for a file, by its name
PlainProbe(name) ==
    LET ext == Lower(Suffix(name)) IN
    CASE ext \in {".txt", ".md"} ->
            [read_text |-> <<Returned(SHORT), Returned(SHORT), Returned(SHORT), Returned(SHORT)>>]
      [] ext = ".pdf" ->
            PdfProbe(TRUE, Returned("reader"), FALSE, Returned("USER_PASSWORD"),
                     Returned(<<Returned(SHORT)>>))
      [] ext = ".docx" ->
            [zip |-> Returned("zip"), document_xml |-> TRUE, parse |-> Returned(<<SHORT>>)]
      [] ext = ".doc" ->
            [win32 |-> FALSE, word |-> Raised("ImportError", "No module named 'win32com'"),
             word_session |-> FALSE,
             tools |-> <<NOT_FOUND, NOT_FOUND>>, office |-> <<NOT_FOUND, NOT_FOUND>>]
      [] ext = ".xlsx" ->
            [openpyxl |-> TRUE, load |-> Returned(<<[title |-> "S", rows |-> <<<<Cell(SHORT)>>>>]>>),
             iter |-> Returned("rows")]
      [] ext = ".xls" ->
            [xlrd |-> TRUE, open |-> Returned(<<[name |-> "S", rows |-> <<<<StrCell(SHORT)>>>>]>>)]
      [] ext \in {".jpg", ".jpeg", ".png"} ->
            [ocr_deps |-> TRUE, open |-> Returned("image"), ocr |-> <<Returned(SHORT), Returned(SHORT)>>]
      [] OTHER -> NO_PROBE

PlainFile(parts) == File(parts, PlainProbe(PathName(parts)))

DiscoverEntries ==
    {PlainFile(<<"rep.txt">>), PlainFile(<<"a.docx">>), PlainFile(<<"a.doc">>),
     PlainFile(<<"sub", "b.pdf">>), Dir(<<"old.pdf">>), PlainFile(<<"old.pdf", "c.xls">>),
     PlainFile(<<"notes.csv">>), PlainFile(<<"B.PDF">>), PlainFile(<<".txt">>),
     PlainFile(<<"z.jpeg">>), PlainFile(<<"a.xlsx">>)}

\* A path names one entry: a directory that holds entries is not also a file.
Trees(U) ==
    {t \in SUBSET U :
        /\ Cardinality(t) <= MaxEntries
        /\ \A e \in Walk(t), f \in Walk(t) : e.parts = f.parts => e = f}

InitDiscover ==
    /\ mode = "discover" /\ pc = "call" /\ arg = NoValue /\ ret = NoValue
    /\ folder \in FolderInputs /\ folder_kind = "dir"
    /\ tree \in Trees(DiscoverEntries)
    /\ max_docs \in MaxDocsInputs
    /\ query = "" /\ batch_size = DEFAULT_BATCH_SIZE
    /\ analyzer = "standalone" /\ files = <<>> /\ path_match_results = <<>>
    /\ idx = 0 /\ attempts = <<>> /\ documents = <<>> /\ stats = NEW_STATS
    /\ prompts = <<>> /\ all_analyses = <<>> /\ results = <<>>
    /\ report = NoReport /\ exit_code = NoExit
    /\ calls = <<>> /\ held = {}

DiscoverCall ==
    /\ mode = "discover" /\ pc = "call"
    /\ files' = discover_files(tree, max_docs)
    /\ stats' = [stats EXCEPT !.total_found = Len(files')]
    /\ pc' = "done"
    /\ UNCHANGED <<mode, arg, ret, folder, folder_kind, tree, query, max_docs, batch_size,
                   analyzer, path_match_results, idx, attempts, documents, prompts,
                   all_analyses, results, report, exit_code>>
    /\ UNCHANGED readerVars

NextDiscover == DiscoverCall

SpecDiscover == InitDiscover /\ [][NextDiscover]_vars

DiscoverDone == mode = "discover" /\ pc = "done"

\* The names the claim calls supported
HasSupportedName(e) == \E x \in CLAIMED_EXTENSIONS : EndsWith(PathName(e.parts), x)

\* The files (not directories) under the root with a supported name, as a set
SupportedFiles == {e \in Walk(tree) : ~e.is_dir /\ HasSupportedName(e)}

IsSortedNoRepeat(l) == \A i \in 1..(Len(l) - 1) : PartsLess(l[i].parts, l[i + 1].parts)

\* C8: discover_files returns only files under the root with a supported
\* extension, none twice, sorted, at most max_docs of them for every
\* configured max_docs (the first max_docs of the sorted list), and
\* stats['total_found'] is the length of the list.  A maximum count is read
\* as a count: the cap is stated for max_docs >= 0.
C8_Discover ==
    DiscoverDone =>
        /\ \A i \in 1..Len(files) : files[i] \in SupportedFiles
        /\ IsSortedNoRepeat(files)
        /\ max_docs >= 0 =>
              /\ Len(files) <= max_docs
              /\ Len(files) = Min(max_docs, Cardinality(SupportedFiles))
              /\ \A e \in SupportedFiles : \A i \in 1..Len(files) :
                    PartsLess(e.parts, files[i].parts) => \E j \in 1..Len(files) : files[j] = e
        /\ stats.total_found = Len(files)

\* What discovery does guarantee: the entries, files or directories, with a
\* supported name, sorted and without repeats, whole when max_docs is 0 or at
\* least their number, the first max_docs when max_docs is positive and
\* smaller, and all but the last -max_docs when it is negative.
DiscoverSound ==
    DiscoverDone =>
        LET all == {e \in Walk(tree) : HasSupportedName(e)}
            n == Cardinality(all)
        IN  /\ \A i \in 1..Len(files) : files[i] \in all
            /\ IsSortedNoRepeat(files)
            /\ \A e \in all : \A i \in 1..Len(files) :
                  PartsLess(e.parts, files[i].parts) => \E j \in 1..Len(files) : files[j] = e
            /\ Len(files) = (IF max_docs = 0 \/ n <= max_docs THEN n
                             ELSE IF max_docs > 0 THEN max_docs
                             ELSE IF n + max_docs > 0 THEN n + max_docs ELSE 0)
            /\ stats.total_found = Len(files)

---------------------------------------------------------------------------
(* DocumentSearcher.search, generate_report and main *)

\* The path of a discovered entry as the searcher holds it: folder / parts
FullParts(e) == folder \o e.parts
\* str(file) and str(file.relative_to(self.folder))
FileKey(e) == PathStr(FullParts(e))
RelKey(e) == PathStr(e.parts)

\* dict[key] = value on a dict kept as the sequence of its items in insertion
\* order: a key already present keeps its place and takes the new value
RECURSIVE DictPut(_, _)
DictPut(d, item) ==
    IF d = <<>> THEN <<item>>
    ELSE IF Head(d).key = item.key THEN <<item>> \o Tail(d)
    ELSE <<Head(d)>> \o DictPut(Tail(d), item)

HasKey(d, k) == \E i \in 1..Len(d) : d[i].key = k
Lookup(d, k) == d[CHOOSE i \in 1..Len(d) : d[i].key = k]

\* Step 1.5 of search: path_match_results over the discovered files
RECURSIVE PathMatches(_, _)
PathMatches(fs, d) ==
    IF fs = <<>> THEN d
    ELSE LET m == _query_matches_path(FullParts(Head(fs)), query) IN
         PathMatches(Tail(fs),
                     IF m.is_match
                     THEN DictPut(d, [key |-> FileKey(Head(fs)), file |-> Head(fs),
                                      path_relevance |-> m.relevance,
                                      matched_terms |-> m.matched_terms])
                     ELSE d)

\* The except branch counting the skip without keeping the error
RecordErrorCountOnly(st, e, o) == [st EXCEPT !.skipped = @ + 1]

\* extract_content's except branch: one more skipped file and its error
RecordError(st, e, o) ==
    [st EXCEPT !.skipped = @ + 1,
               !.errors = Append(@, [file |-> RelKey(e), error |-> o.msg])]

\* batches = [documents[i:i + batch_size] for i in range(0, len(documents), batch_size)]
\* (a negative step gives an empty range; a zero step is never reached, see Extract)
RECURSIVE Batches(_, _)
Batches(docs, bs) ==
    IF docs = <<>> \/ bs <= 0 THEN <<>>
    ELSE <<SubSeq(docs, 1, Min(bs, Len(docs)))>>
         \o Batches(SubSeq(docs, Min(bs, Len(docs)) + 1, Len(docs)), bs)

\* analyze_with_claude: the docs_info it puts in the prompt
DocsInfo(batch) ==
    [i \in 1..Len(batch) |->
        [file |-> RelKey(batch[i].file),
         content_preview |-> TTake(batch[i].content, PREVIEW_CHARS)]]

\* The relevance values an analysis carries in the model
RelevanceInputs == {20, 70, 95}

\* What a host analyzer can answer to a prompt: for each document of the
\* prompt, in order, no analysis or one analysis naming the document by the
\* 'file' value of the prompt.
RECURSIVE Responses(_)
Responses(info) ==
    IF info = <<>> THEN {<<>>}
    ELSE LET rest == Responses(Tail(info)) IN
         rest \cup
         {<<[file |-> Head(info).file, relevance |-> r, summary |-> "summary",
             excerpts |-> <<"excerpt">>]>> \o l : r \in RelevanceInputs, l \in rest}

\* The literal before the matched terms in a path-only summary, and before the
\* relative path in its excerpt (the source writes both in Chinese)
PATH_SUMMARY == "File/folder name contains: "
PATH_EXCERPT == "Path match: "

\* int(min(100, content_relevance + path_relevance * 0.3)), in tenths
Combined(content_relevance, path_relevance) ==
    Min(1000, 10 * content_relevance + 3 * path_relevance) \div 10

\* content_analyzed_files = {a.get('file', ''): a for a in all_analyses}
RECURSIVE AnalysisDict(_, _)
AnalysisDict(as, d) ==
    IF as = <<>> THEN d
    ELSE AnalysisDict(Tail(as), DictPut(d, [key |-> Head(as).file, analysis |-> Head(as)]))

\* The path-only excerpt giving str(file) in place of the path relative to
\* the folder
PathEntryFullPathExcerpt(pm, analysed) ==
    IF HasKey(analysed, pm.key)
    THEN LET a == Lookup(analysed, pm.key).analysis IN
         [file |-> pm.key,
          relevance |-> Combined(a.relevance, pm.path_relevance),
          summary |-> a.summary, excerpts |-> a.excerpts,
          match_sources |-> <<"path", "content">>,
          matched_terms |-> pm.matched_terms,
          path_relevance |-> pm.path_relevance,
          content_relevance |-> a.relevance]
    ELSE [file |-> pm.key,
          relevance |-> pm.path_relevance,
          summary |-> PATH_SUMMARY \o StrJoin(", ", pm.matched_terms),
          excerpts |-> <<PATH_EXCERPT \o pm.key>>,
          match_sources |-> <<"path">>,
          matched_terms |-> pm.matched_terms]

\* "Process path matches": one entry per path match
PathEntry(pm, analysed) ==
    IF HasKey(analysed, pm.key)
    THEN LET a == Lookup(analysed, pm.key).analysis IN
         [file |-> pm.key,
          relevance |-> Combined(a.relevance, pm.path_relevance),
          summary |-> a.summary, excerpts |-> a.excerpts,
          match_sources |-> <<"path", "content">>,
          matched_terms |-> pm.matched_terms,
          path_relevance |-> pm.path_relevance,
          content_relevance |-> a.relevance]
    ELSE [file |-> pm.key,
          relevance |-> pm.path_relevance,
          summary |-> PATH_SUMMARY \o StrJoin(", ", pm.matched_terms),
          excerpts |-> <<PATH_EXCERPT \o RelKey(pm.file)>>,
          match_sources |-> <<"path">>,
          matched_terms |-> pm.matched_terms]

\* "Add content-only matches": an analysis whose 'file' is no path match key
ContentEntry(a) ==
    [file |-> a.file, relevance |-> a.relevance, summary |-> a.summary,
     excerpts |-> a.excerpts, match_sources |-> <<"content">>]

FinalResults(pmr, as) ==
    LET analysed == AnalysisDict(as, <<>>)
        content_only == SelectSeq(as, LAMBDA a : ~HasKey(pmr, a.file))
    IN  [i \in 1..Len(pmr) |-> PathEntry(pmr[i], analysed)]
        \o [i \in 1..Len(content_only) |-> ContentEntry(content_only[i])]

\* all_analyses after the merge: the content-only loop sets match_sources on
\* the analysis itself, the same dict that it appends to final_results
MarkContentOnly(pmr, as) ==
    [i \in 1..Len(as) |-> IF HasKey(pmr, as[i].file) THEN as[i] ELSE ContentEntry(as[i])]

\* The filter comparing with > and against the lowest path score
AboveThresholdLow(l) == SelectSeq(l, LAMBDA r : r.relevance > 10)

\* "Filter by relevance threshold"
AboveThreshold(l) == SelectSeq(l, LAMBDA r : r.relevance >= RELEVANCE_THRESHOLD)

\* matched.sort(key=relevance, reverse=True): stable, equal scores keep their order
RECURSIVE InsertByRelevance(_, _)
InsertByRelevance(r, l) ==
    IF l = <<>> THEN <<r>>
    ELSE IF r.relevance > Head(l).relevance THEN <<r>> \o l
    ELSE <<Head(l)>> \o InsertByRelevance(r, Tail(l))

\* The sort left out: the merge order is returned
SortByRelevanceMissing(l) == l

RECURSIVE SortByRelevance(_)
SortByRelevance(l) ==
    IF l = <<>> THEN <<>>
    ELSE InsertByRelevance(l[Len(l)], SortByRelevance(SubSeq(l, 1, Len(l) - 1)))

\* Path(file_path).name of a result's 'file'
RECURSIVE BaseName(_)
BaseName(s) ==
    IF \E i \in 1..Len(s) : CharAt(s, i) = "/"
    THEN BaseName(StrFrom(s, CHOOSE i \in 1..Len(s) : CharAt(s, i) = "/"))
    ELSE s

\* generate_report: the sections of the Markdown report
ReportSection(r) ==
    [heading |-> BaseName(r.file),
     badge |-> \E i \in 1..Len(r.match_sources) : r.match_sources[i] = "path",
     relevance |-> r.relevance,
     match_sources |-> r.match_sources,
     summary |-> r.summary,
     excerpts |-> r.excerpts]

generate_report(rs, st) ==
    [query |-> query, folder |-> PathStr(folder),
     scanned |-> st.total_found, matched |-> st.matched, skipped |-> st.skipped,
     matched_documents |-> [i \in 1..Len(rs) |-> ReportSection(rs[i])],
     successfully_read |-> st.successfully_read,
     skipped_files |-> st.errors]

---------------------------------------------------------------------------
(* Spec: one run of main() *)

\* The entries a searched folder can hold
ENCRYPTED_RAISES ==
    PdfProbe(TRUE, Returned("reader"), TRUE,
             Raised("DependencyError", "cryptography>=3.1 is required for AES algorithm"),
             NOT_DECRYPTED)
ENCRYPTED_REFUSED ==
    PdfProbe(TRUE, Returned("reader"), TRUE, Returned("NOT_DECRYPTED"), NOT_DECRYPTED)

SearchEntries ==
    {PlainFile(<<"rep.txt">>),
     File(<<"rep.txt">>, [read_text |-> <<Returned(BLANK), Returned(BLANK), Returned(BLANK), Returned(BLANK)>>]),
     PlainFile(<<"rep", "b.pdf">>),
     File(<<"rep", "b.pdf">>, ENCRYPTED_RAISES),
     File(<<"rep", "b.pdf">>, ENCRYPTED_REFUSED),
     PlainFile(<<"a.doc">>),
     Dir(<<"old.pdf">>),
     File(<<"x.png">>, [ocr_deps |-> TRUE, open |-> Returned("image"), ocr |-> <<TESS_MISSING, TESS_MISSING>>]),
     File(<<"big.md">>, [read_text |-> <<Returned(<<Run("a", MAX_CHARS + 1)>>), DECODE_ERROR, DECODE_ERROR, DECODE_ERROR>>])}

SearchQueries == {"rep", "rep/b", "rep rep/b", "x a", "Rep,big old"}

\* --max-docs and --batch-size: the defaults and other integers
Configs ==
    {[max_docs |-> DEFAULT_MAX_DOCS, batch_size |-> DEFAULT_BATCH_SIZE],
     [max_docs |-> 1, batch_size |-> 1],
     [max_docs |-> 0, batch_size |-> 1],
     [max_docs |-> -1, batch_size |-> DEFAULT_BATCH_SIZE],
     [max_docs |-> DEFAULT_MAX_DOCS, batch_size |-> 0],
     [max_docs |-> DEFAULT_MAX_DOCS, batch_size |-> -1]}

Init ==
    /\ mode = "search" /\ pc = "main" /\ arg = NoValue /\ ret = NoValue
    /\ folder \in FolderInputs
    /\ \/ folder_kind = "dir" /\ tree \in Trees(SearchEntries)
       \/ folder_kind \in {"missing", "file"} /\ tree = {}
    /\ query \in SearchQueries
    /\ \E c \in Configs : max_docs = c.max_docs /\ batch_size = c.batch_size
    /\ analyzer \in {"standalone", "hosted"}
    /\ files = <<>> /\ path_match_results = <<>>
    /\ idx = 0 /\ attempts = <<>> /\ documents = <<>> /\ stats = NEW_STATS
    /\ prompts = <<>> /\ all_analyses = <<>> /\ results = <<>>
    /\ report = NoReport /\ exit_code = NoExit
    /\ calls = <<>> /\ held = {}

inputVars == <<mode, arg, folder, folder_kind, tree, query, max_docs, batch_size, analyzer>>

\* Where each step of a run applies
AtValidate == mode = "search" /\ pc = "main"
AtDiscover == mode = "search" /\ pc = "discover"
AtPathMatch == mode = "search" /\ pc = "path"
AtExtract == mode = "search" /\ pc = "extract" /\ idx <= Len(files)
AtStartBatches == mode = "search" /\ pc = "extract" /\ idx > Len(files)
AtAnalyze ==
    mode = "search" /\ pc = "analyze" /\ idx <= Len(Batches(documents, batch_size))
AtMerge ==
    mode = "search" /\ pc = "analyze" /\ idx > Len(Batches(documents, batch_size))
AtReport == mode = "search" /\ pc = "report"

\* main: "Validate folder"; a missing path or a non-directory exits 1
Validate ==
    /\ AtValidate
    /\ IF folder_kind = "dir"
       THEN pc' = "discover" /\ UNCHANGED exit_code
       ELSE pc' = "done" /\ exit_code' = 1
    /\ UNCHANGED <<readerVars, inputVars, ret, files, path_match_results, idx, attempts, documents,
                   stats, prompts, all_analyses, results, report>>

\* search, Step 1: discover_files; no file at all returns []
Discover ==
    /\ AtDiscover
    /\ files' = discover_files(tree, max_docs)
    /\ stats' = [stats EXCEPT !.total_found = Len(files')]
    /\ pc' = IF files' = <<>> THEN "report" ELSE "path"
    /\ UNCHANGED <<readerVars, inputVars, ret, path_match_results, idx, attempts, documents,
                   prompts, all_analyses, results, report, exit_code>>

\* search, Step 1.5: path matching over all the files
PathMatch ==
    /\ AtPathMatch
    /\ path_match_results' = PathMatches(files, <<>>)
    /\ idx' = 1
    /\ pc' = "extract"
    /\ UNCHANGED <<readerVars, inputVars, ret, files, attempts, documents, stats, prompts,
                   all_analyses, results, report, exit_code>>

\* search, Step 2: one turn of the extraction loop, extract_content included
Extract ==
    /\ AtExtract
    /\ LET file == files[idx]
           o == read(file)
       IN  /\ attempts' = Append(attempts, file)
           /\ IF IsReadError(o)
              THEN /\ stats' = RecordError(stats, file, o)
                   /\ UNCHANGED documents
              ELSE IF NonBlank(o.value)
              THEN /\ documents' = Append(documents, [file |-> file, content |-> o.value])
                   /\ stats' = [stats EXCEPT !.successfully_read = @ + 1]
              ELSE UNCHANGED <<documents, stats>>
    /\ calls' = Calls(files[idx])
    /\ held' = held \cup {[file |-> RelKey(files[idx]), resource |-> r] : r \in Held(files[idx])}
    /\ idx' = idx + 1
    /\ UNCHANGED <<inputVars, pc, ret, files, path_match_results, prompts,
                   all_analyses, results, report, exit_code>>

\* search, Step 3 opens: with documents the batch count is logged, which
\* divides by batch_size; without, the batches are skipped
StartBatches ==
    /\ AtStartBatches
    /\ IF documents # <<>> /\ batch_size = 0
       THEN /\ pc' = "crashed"
            /\ ret' = Raised("ZeroDivisionError", "integer division or modulo by zero")
            /\ exit_code' = 1
       ELSE /\ pc' = "analyze"
            /\ UNCHANGED <<ret, exit_code>>
    /\ idx' = 1
    /\ UNCHANGED <<readerVars, inputVars, files, path_match_results, attempts, documents, stats,
                   prompts, all_analyses, results, report>>

\* search, Step 3: analyze_with_claude on the next batch.  The script alone
\* prints the prompt and returns []; a host answers the prompt.
Analyze ==
    /\ AtAnalyze
    /\ LET info == DocsInfo(Batches(documents, batch_size)[idx]) IN
       /\ prompts' = Append(prompts, info)
       /\ \E analyses \in (IF analyzer = "hosted" THEN Responses(info) ELSE {<<>>}) :
             all_analyses' = all_analyses \o analyses
    /\ idx' = idx + 1
    /\ UNCHANGED <<readerVars, inputVars, pc, ret, files, path_match_results, attempts, documents,
                   stats, results, report, exit_code>>

\* search, Step 4 to the return: merge, filter, sort, count
Merge ==
    /\ AtMerge
    /\ results' = SortByRelevance(AboveThreshold(FinalResults(path_match_results, all_analyses)))
    /\ all_analyses' = MarkContentOnly(path_match_results, all_analyses)
    /\ stats' = [stats EXCEPT !.matched = Len(results')]
    /\ pc' = "report"
    /\ UNCHANGED <<readerVars, inputVars, ret, files, path_match_results, idx, attempts, documents,
                   prompts, report, exit_code>>

\* main: generate_report, then exit 0 with or without results
Report ==
    /\ AtReport
    /\ report' = generate_report(results, stats)
    /\ exit_code' = 0
    /\ pc' = "done"
    /\ UNCHANGED <<readerVars, inputVars, ret, files, path_match_results, idx, attempts, documents,
                   stats, prompts, all_analyses, results>>

Next ==
    \/ Validate
    \/ Discover
    \/ PathMatch
    \/ Extract
    \/ StartBatches
    \/ Analyze
    \/ Merge
    \/ Report

Spec == Init /\ [][Next]_vars

\* SpecOcr: the same run of main() over folders of images: x.png answering in
\* every way an image can, next to another image and a text file
OcrImages == {File(<<"x.png">>, p) : p \in ImageProbes}

OcrOthers ==
    {File(<<"y.jpeg">>, [ocr_deps |-> TRUE, open |-> Returned("image"), ocr |-> o]) :
        o \in {<<Returned(SHORT), Returned(SHORT)>>, <<TESS_ERROR, TESS_ERROR>>,
               <<TESS_MISSING, Returned(SHORT)>>}}

OcrTrees ==
    {xs \cup ys \cup ts :
        xs \in {{}} \cup {{e} : e \in OcrImages},
        ys \in {{}} \cup {{e} : e \in OcrOthers},
        ts \in {{}, {PlainFile(<<"rep.txt">>)}}}

InitOcr ==
    /\ mode = "search" /\ pc = "main" /\ arg = NoValue /\ ret = NoValue
    /\ folder \in FolderInputs
    /\ \/ folder_kind = "dir" /\ tree \in OcrTrees
       \/ folder_kind \in {"missing", "file"} /\ tree = {}
    /\ query \in {"x", "rep y"}
    /\ \E c \in {[max_docs |-> DEFAULT_MAX_DOCS, batch_size |-> DEFAULT_BATCH_SIZE],
                 [max_docs |-> 1, batch_size |-> 1]} :
          max_docs = c.max_docs /\ batch_size = c.batch_size
    /\ analyzer \in {"standalone", "hosted"}
    /\ files = <<>> /\ path_match_results = <<>>
    /\ idx = 0 /\ attempts = <<>> /\ documents = <<>> /\ stats = NEW_STATS
    /\ prompts = <<>> /\ all_analyses = <<>> /\ results = <<>>
    /\ report = NoReport /\ exit_code = NoExit
    /\ calls = <<>> /\ held = {}

SpecOcr == InitOcr /\ [][Next]_vars

---------------------------------------------------------------------------
(* Properties of a run *)

SearchMode == mode = "search"
\* search() has returned and the report is written
Finished == SearchMode /\ pc = "done" /\ exit_code = 0
\* The extraction loop is over
Extracted == SearchMode /\ pc \in {"analyze", "report", "done", "crashed"}

\* The files of a list that fail extraction, in order, as error entries
RECURSIVE ExpectedErrors(_)
ExpectedErrors(fs) ==
    IF fs = <<>> THEN <<>>
    ELSE IF IsReadError(read(Head(fs)))
         THEN <<[file |-> PathStr(Head(fs).parts), error |-> read(Head(fs)).msg]>>
              \o ExpectedErrors(Tail(fs))
    ELSE ExpectedErrors(Tail(fs))

\* C3: per-file errors are collected and never abort the batch: every
\* discovered file is attempted exactly once in discovery order, each failing
\* file adds one (relative path, error text) entry to stats['errors'] and one
\* to stats['skipped'], and the search goes on: until it has returned, a step
\* of the run applies.  (The only abort of a run is the batch count's division
\* by a --batch-size of 0, which happens with or without failing files.)
C3_ErrorsCollected ==
    SearchMode =>
        /\ Len(attempts) <= Len(files)
        /\ attempts = SubSeq(files, 1, Len(attempts))
        /\ Extracted => attempts = files
        /\ stats.errors = ExpectedErrors(attempts)
        /\ stats.skipped = Len(stats.errors)
        /\ pc = "crashed" => (batch_size = 0 /\ documents # <<>>)
        /\ pc \notin {"done", "crashed"} =>
              \/ AtValidate \/ AtDiscover \/ AtPathMatch \/ AtExtract
              \/ AtStartBatches \/ AtAnalyze \/ AtMerge \/ AtReport

\* The first of two files failed, the second was read, and the run finished.
C3_Witness ==
    /\ Finished /\ Len(files) = 2 /\ attempts = files
    /\ IsReadError(read(files[1])) /\ IsReturn(read(files[2]))
    /\ stats.skipped = 1 /\ stats.successfully_read = 1
    /\ Len(documents) = 1 /\ documents[1].file = files[2]

\* The entries of the results that stand for a discovered file: those naming
\* it by its path or by its path relative to the folder
EntriesOf(f) ==
    {i \in 1..Len(results) : results[i].file \in {PathStr(folder \o f.parts), PathStr(f.parts)}}

\* The analyses the analyzer returned for a discovered file
AnalysesOf(f) == {i \in 1..Len(all_analyses) : all_analyses[i].file = PathStr(f.parts)}

PathScoreOf(f) == _query_matches_path(folder \o f.parts, query)

\* min(100, content_relevance + 0.3 * path_relevance); path scores are
\* multiples of 10, so the product is a whole number
ClaimedCombined(c, p) == Min(100, c + (3 * p) \div 10)

\* C5: a discovered file with both a path match and an analysis returned for
\* it has, in the final results, relevance
\* min(100, content_relevance + 0.3 * path_relevance).
C5_CombinedScore ==
    Finished =>
        \A k \in 1..Len(files) : \A a \in AnalysesOf(files[k]) :
            PathScoreOf(files[k]).is_match =>
                LET want == ClaimedCombined(all_analyses[a].relevance,
                                            PathScoreOf(files[k]).relevance)
                IN  /\ \A i \in EntriesOf(files[k]) : results[i].relevance = want
                    /\ want >= 30 => EntriesOf(files[k]) # {}

\* The same, for a folder given as "." : there str(file) is the relative path
\* the analysis names the file by, and the two are merged.
CombinedWhenKeysAgree == folder = <<>> => C5_CombinedScore

\* C6: every entry of the returned list has relevance >= 30, whatever it
\* came from.
C6_Threshold ==
    SearchMode =>
        /\ \A i \in 1..Len(results) : results[i].relevance >= 30
        /\ report # NoReport =>
              \A i \in 1..Len(report.matched_documents) :
                  report.matched_documents[i].relevance >= 30

\* A path-only match scored 20 and a content-only analysis scored 20 were
\* both left out of a list that holds other entries.
C6_Witness ==
    /\ Finished /\ results # <<>>
    /\ \E i \in 1..Len(path_match_results) :
          /\ path_match_results[i].path_relevance = 20
          /\ \A j \in 1..Len(results) : results[j].file # path_match_results[i].key
    /\ \E i \in 1..Len(all_analyses) :
          /\ all_analyses[i].relevance = 20
          /\ ~HasKey(path_match_results, all_analyses[i].file)
          /\ \A j \in 1..Len(results) : results[j].file # all_analyses[i].file

\* C7: the returned list is in non-increasing order of relevance.
C7_SortedDescending ==
    SearchMode =>
        \A i \in 1..Len(results) : \A j \in 1..Len(results) :
            i < j => results[i].relevance >= results[j].relevance

\* A path-only entry scored lower than the content-only entry merged after
\* it, and the returned list has the content-only entry first.
C7_Witness ==
    /\ Finished /\ Len(results) = 2
    /\ results[1].match_sources = <<"content">>
    /\ results[2].match_sources = <<"path">>
    /\ results[1].relevance > results[2].relevance

\* The folder holds one readable .txt file and the query is one term found
\* in its name
OneTxtFile(e) ==
    /\ tree = {e} /\ ~e.is_dir /\ Len(e.parts) = 1
    /\ Suffix(e.parts[1]) = ".txt"
    /\ IsReturn(read(e))
    /\ Len(QueryTerms(query)) = 1
    /\ Contains(Lower(e.parts[1]), QueryTerms(query)[1])

\* C9: with no analyses returned, a folder holding one readable .txt file
\* whose name contains the single query term gives exactly one result, for
\* that file, with match_sources ['path'] and relevance 40, and the report
\* lists it with that score.  Stated for every run that keeps the file and
\* reaches the merge: --max-docs not negative and --batch-size not 0.
C9_OneFilePathMatch ==
    \A e \in tree :
        (/\ SearchMode /\ pc = "done" /\ folder_kind = "dir"
         /\ OneTxtFile(e) /\ all_analyses = <<>>
         /\ max_docs >= 0 /\ batch_size # 0) =>
            /\ exit_code = 0
            /\ Len(results) = 1
            /\ results[1].file = PathStr(folder \o e.parts)
            /\ results[1].match_sources = <<"path">>
            /\ results[1].relevance = 40
            /\ report # NoReport
            /\ Len(report.matched_documents) = 1
            /\ report.matched_documents[1].heading = e.parts[1]
            /\ report.matched_documents[1].relevance = 40
            /\ report.matched_documents[1].match_sources = <<"path">>

\* The script ran alone, with its defaults, on a folder holding rep.txt and
\* the query "rep", and reported the file.
C9_Witness ==
    /\ Finished /\ analyzer = "standalone"
    /\ max_docs = DEFAULT_MAX_DOCS /\ batch_size = DEFAULT_BATCH_SIZE
    /\ \E e \in tree : OneTxtFile(e)
    /\ Len(results) = 1 /\ results[1].relevance = 40
    /\ Len(report.matched_documents) = 1

\* A discovered PDF that the empty password does not open
IsEncryptedPdf(f) ==
    /\ ~f.is_dir /\ Lower(Suffix(PathName(f.parts))) = ".pdf"
    /\ EncryptedPdf(f.probe)

ErrorsOf(f) == {i \in 1..Len(stats.errors) : stats.errors[i].file = PathStr(f.parts)}

\* C10: an encrypted PDF yields an "encrypted" ReadError, has an entry in
\* stats['errors'] and none in the matched results, whatever the query.
C10_EncryptedOnlySkipped ==
    Finished =>
        \A k \in 1..Len(files) :
            IsEncryptedPdf(files[k]) =>
                /\ \E i \in ErrorsOf(files[k]) :
                      Contains(Lower(stats.errors[i].error), "encrypted")
                /\ EntriesOf(files[k]) = {}

\* What the run does with an encrypted PDF.  _read_pdf does not look at what
\* decrypt('') returns: the error is "Encrypted PDF (password protected)" only
\* when decrypt('') raises, and "PDF read failed: ..." from the pages when it
\* returns without decrypting.  The file has exactly one entry in
\* stats['errors'], listed among the report's skipped files, and is never
\* analysed for content; it is in the matched results as a path-only entry
\* with its path score exactly when a query term occurs in its path with a
\* score of at least 30.
EncryptedPdfHandling ==
    Finished =>
        \A k \in 1..Len(files) :
            IsEncryptedPdf(files[k]) =>
                LET f == files[k]
                    score == PathScoreOf(f)
                IN  /\ Cardinality(ErrorsOf(f)) = 1
                    /\ \A i \in ErrorsOf(f) :
                          /\ stats.errors[i].error =
                                (IF IsRaise(f.probe.decrypt)
                                 THEN "Encrypted PDF (password protected)"
                                 ELSE "PDF read failed: " \o f.probe.pages.msg)
                          /\ report.skipped_files[i] = stats.errors[i]
                    /\ \A i \in 1..Len(documents) : documents[i].file # f
                    /\ \A i \in 1..Len(all_analyses) : all_analyses[i].file # PathStr(f.parts)
                    /\ \A i \in EntriesOf(f) :
                          /\ results[i].match_sources = <<"path">>
                          /\ results[i].relevance = score.relevance
                    /\ EntriesOf(f) # {} <=> (score.is_match /\ score.relevance >= 30)

\* An encrypted PDF under a directory the query names was skipped with the
\* "Encrypted PDF" error and is in the matched results by its path.
EncryptedListedByPath ==
    /\ Finished
    /\ \E k \in 1..Len(files) :
          /\ IsEncryptedPdf(files[k]) /\ IsRaise(files[k].probe.decrypt)
          /\ \E i \in ErrorsOf(files[k]) :
                stats.errors[i].error = "Encrypted PDF (password protected)"
          /\ \E i \in EntriesOf(files[k]) : results[i].match_sources = <<"path">>

\* An encrypted PDF that decrypt('') left undecrypted was skipped with an
\* error that does not say it is encrypted, and is in no matched result.
EncryptedNotReported ==
    /\ Finished
    /\ \E k \in 1..Len(files) :
          /\ IsEncryptedPdf(files[k]) /\ IsReturn(files[k].probe.decrypt)
          /\ EntriesOf(files[k]) = {}
          /\ \E i \in ErrorsOf(files[k]) :
                /\ stats.errors[i].error = "PDF read failed: File has not been decrypted"
                /\ ~Contains(Lower(stats.errors[i].error), "encrypted")

\* The process has ended: sys.exit was called or an exception left main
Ended == SearchMode /\ pc \in {"done", "crashed"}

ClaimedExitCodes ==
    Ended =>
        /\ exit_code \in {0, 1}
        /\ exit_code = 1 <=> folder_kind # "dir"
        /\ exit_code = 1 =>
              /\ files = <<>> /\ attempts = <<>> /\ prompts = <<>>
              /\ results = <<>> /\ report = NoReport
        /\ exit_code = 0 => report # NoReport

\* C11: the run exits 0 whenever it completes, with or without matches, and
\* exits 1 only when the folder argument is missing or not a directory, and
\* then nothing was searched and no report was written.
C11_ExitCodes == ClaimedExitCodes

\* The same with --batch-size 0 set aside: every other run exits as claimed.
ExitCodesBatchSizeNotZero == batch_size # 0 => ClaimedExitCodes

\* search has merged: the list it built at Step 4, before the filter
Merged == SearchMode /\ pc \in {"report", "done"} /\ files # <<>>
MergedList == FinalResults(path_match_results, all_analyses)
MergedOf(f) ==
    {i \in 1..Len(MergedList) :
        MergedList[i].file \in {PathStr(folder \o f.parts), PathStr(f.parts)}}

\* C12: in the merge, a file with a path match and no analysis gets one
\* entry with its path score as relevance, a summary naming the matched
\* terms, one excerpt giving the path relative to the folder and
\* match_sources ['path']; an analysis of a file with no path match is
\* passed through with its relevance, summary and excerpts, as a 'content'
\* entry.  Entries scoring at least 30 are in the returned list as merged.
C12_MergePathOnlyContentOnly ==
    Merged =>
        \A k \in 1..Len(files) :
            LET f == files[k]
                score == PathScoreOf(f)
            IN  /\ (score.is_match /\ AnalysesOf(f) = {}) =>
                      /\ Cardinality(MergedOf(f)) = 1
                      /\ \A i \in MergedOf(f) :
                            /\ MergedList[i].relevance = score.relevance
                            /\ MergedList[i].summary =
                                  PATH_SUMMARY \o StrJoin(", ", score.matched_terms)
                            /\ MergedList[i].excerpts = <<PATH_EXCERPT \o PathStr(f.parts)>>
                            /\ MergedList[i].match_sources = <<"path">>
                            /\ score.relevance >= RELEVANCE_THRESHOLD =>
                                  \E j \in 1..Len(results) : results[j] = MergedList[i]
                /\ ~score.is_match =>
                      \A a \in AnalysesOf(f) :
                          /\ Cardinality(MergedOf(f)) = 1
                          /\ \A i \in MergedOf(f) :
                                /\ MergedList[i].file = all_analyses[a].file
                                /\ MergedList[i].relevance = all_analyses[a].relevance
                                /\ MergedList[i].summary = all_analyses[a].summary
                                /\ MergedList[i].excerpts = all_analyses[a].excerpts
                                /\ MergedList[i].match_sources = <<"content">>
                                /\ all_analyses[a].relevance >= RELEVANCE_THRESHOLD =>
                                      \E j \in 1..Len(results) : results[j] = MergedList[i]

\* In a named folder, one file matched by its name and not analysed and
\* another analysed and not matched by its path are both in the results.
C12_Witness ==
    /\ Finished /\ folder # <<>> /\ Len(files) = 2
    /\ \E k \in 1..2 :
          /\ PathScoreOf(files[k]).is_match /\ AnalysesOf(files[k]) = {}
          /\ \E j \in 1..Len(results) :
                /\ results[j].match_sources = <<"path">>
                /\ results[j].excerpts = <<PATH_EXCERPT \o PathStr(files[k].parts)>>
          /\ ~PathScoreOf(files[3 - k]).is_match /\ AnalysesOf(files[3 - k]) # {}
          /\ \E j \in 1..Len(results) :
                /\ results[j].match_sources = <<"content">>
                /\ results[j].file = PathStr(files[3 - k].parts)

\* The documents the analyzer was shown, over all its calls in order
RECURSIVE Shown(_)
Shown(ps) == IF ps = <<>> THEN <<>> ELSE Head(ps) \o Shown(Tail(ps))

\* Every analysis of the run is over: search went past Step 3, or stopped
AfterBatches == SearchMode /\ pc \in {"report", "done", "crashed"} /\ files # <<>>

ClaimedBatching ==
    /\ SearchMode =>
          \* one call per batch, each on the documents that follow the earlier ones
          /\ Len(Shown(prompts)) <= Len(documents)
          /\ \A i \in 1..Len(Shown(prompts)) :
                Shown(prompts)[i].file = PathStr(documents[i].file.parts)
          /\ \A b \in 1..Len(prompts) :
                /\ Len(prompts[b]) >= 1
                /\ Len(prompts[b]) <= batch_size
                /\ b < Len(prompts) => Len(prompts[b]) = batch_size
    /\ AfterBatches => Len(Shown(prompts)) = Len(documents)

\* C13: for every number of extracted documents and every --batch-size, the
\* batches partition the documents in order: each document is in exactly one
\* batch, a batch holds at most batch_size documents and every batch but the
\* last exactly batch_size, and analyze_with_claude is called once per batch,
\* in batch order.
C13_Batching == ClaimedBatching

\* The same for a positive --batch-size.
BatchingPositiveSize == batch_size > 0 => ClaimedBatching

---------------------------------------------------------------------------
(* Properties of the provider chains *)

\* A .doc file has been read
DocRead == ReadDone /\ ReadExt = ".doc"

\* The providers of the platform, in the claimed order
ProviderOrder ==
    IF arg.probe.win32 THEN <<"word", "libreoffice", "soffice">>
    ELSE <<"antiword", "catdoc", "libreoffice", "soffice">>

ProviderOutcome(n) ==
    CASE n = "word" -> arg.probe.word
      [] n = "antiword" -> arg.probe.tools[1]
      [] n = "catdoc" -> arg.probe.tools[2]
      [] n = "libreoffice" -> arg.probe.office[1]
      [] n = "soffice" -> arg.probe.office[2]

\* A provider gave the document's text: Word returned it, a tool exited 0
\* and printed something, a conversion exited 0 and wrote its output file
ProviderSucceeded(n) ==
    LET o == ProviderOutcome(n) IN
    /\ IsReturn(o)
    /\ n \in {"antiword", "catdoc"} => (o.value.returncode = 0 /\ NonBlank(o.value.stdout))
    /\ n \in {"libreoffice", "soffice"} => (o.value.returncode = 0 /\ o.value.temp_txt.exists)

ProviderText(n) ==
    LET o == ProviderOutcome(n) IN
    CASE n = "word" -> o.value
      [] n \in {"antiword", "catdoc"} -> o.value.stdout
      [] n \in {"libreoffice", "soffice"} -> o.value.temp_txt.text

\* A provider failed in one of the claimed ways: the tool is missing, it
\* timed out, it exited non-zero or it gave no output
ProviderFailed(n) ==
    LET o == ProviderOutcome(n) IN
    /\ ~ProviderSucceeded(n)
    /\ (IsRaise(o) /\ n # "word") => o.type \in {"FileNotFoundError", "TimeoutExpired"}

\* C14: _read_doc runs its providers in the fixed order of the platform, a
\* provider only after every earlier one failed; the text of the first one
\* that succeeds is returned and none is run after it; when every provider
\* fails (missing tool, timeout, non-zero exit, no output) the outcome is
\* the ReadError with the remediation hints.
C14_DocProviderChain ==
    DocRead =>
        /\ Len(calls) >= 1 /\ Len(calls) <= Len(ProviderOrder)
        /\ \A i \in 1..Len(calls) :
              /\ calls[i] = ProviderOrder[i]
              /\ i < Len(calls) => ~ProviderSucceeded(calls[i])
              /\ ProviderSucceeded(calls[i]) =>
                    /\ i = Len(calls)
                    /\ IsReturn(ret)
                    /\ TTake(ret.value, MAX_CHARS) = TTake(ProviderText(calls[i]), MAX_CHARS)
        /\ IsReturn(ret) => ProviderSucceeded(calls[Len(calls)])
        /\ (\A i \in 1..Len(ProviderOrder) : ProviderFailed(ProviderOrder[i])) =>
              /\ calls = ProviderOrder
              /\ IsReadError(ret)
              /\ Contains(ret.msg, "Could not read .doc file")
              /\ Contains(ret.msg, "Install LibreOffice")

\* antiword and catdoc failed and libreoffice converted the file: three
\* providers were run and the converted text came back.
C14_Witness ==
    /\ DocRead /\ ~arg.probe.win32
    /\ calls = <<"antiword", "catdoc", "libreoffice">>
    /\ ProviderFailed("antiword") /\ ProviderFailed("catdoc")
    /\ ProviderSucceeded("libreoffice")
    /\ ret = Returned(ProviderText("libreoffice"))

\* Every provider failed and the ReadError with the hints came back.
DocAllFailedReached ==
    /\ DocRead /\ calls = ProviderOrder
    /\ \A i \in 1..Len(ProviderOrder) : ProviderFailed(ProviderOrder[i])
    /\ ret = ReadError(DOC_HINTS)

\* The file the extraction loop has just read is an image
LastAttempt == attempts[Len(attempts)]
ImageRead ==
    /\ SearchMode /\ attempts # <<>>
    /\ Lower(Suffix(PathName(LastAttempt.parts))) \in {".jpg", ".jpeg", ".png"}
    /\ LastAttempt.probe.ocr_deps

\* The failure that ended the OCR of the image, if one did: Image.open or the
\* last image_to_string call raised
OcrFailure ==
    LET p == LastAttempt.probe IN
    IF IsRaise(p.open) THEN p.open
    ELSE IF calls # <<>> /\ IsRaise(p.ocr[Len(calls)]) THEN p.ocr[Len(calls)]
    ELSE NoValue

\* C15: _read_image first runs OCR with chi_sim+eng and runs it with eng only
\* after the first attempt failed; a failure of the OCR comes back as the
\* text "[OCR failed: ...]" and is not raised, so the file is counted as read
\* (it is among the documents) and not as skipped.
C15_OcrNonFatal ==
    ImageRead =>
        LET f == LastAttempt
            p == f.probe
        IN  /\ Len(calls) <= 2
            /\ IsReturn(p.open) => (Len(calls) >= 1 /\ calls[1] = "chi_sim+eng")
            /\ Len(calls) = 2 => (calls[2] = "eng" /\ IsRaise(p.ocr[1]))
            /\ OcrFailure # NoValue =>
                  /\ \E i \in 1..Len(documents) :
                        /\ documents[i].file = f
                        /\ documents[i].content = Text("[OCR failed: " \o OcrFailure.msg \o "]")
                  /\ \A i \in 1..Len(stats.errors) : stats.errors[i].file # PathStr(f.parts)
                  /\ stats.successfully_read = Len(documents)
                  /\ stats.skipped = Len(stats.errors)

\* The chi_sim+eng attempt failed, the eng attempt failed too, and the image
\* is among the documents with the marker as its content.
C15_Witness ==
    /\ ImageRead /\ calls = <<"chi_sim+eng", "eng">>
    /\ IsRaise(LastAttempt.probe.ocr[1]) /\ IsRaise(LastAttempt.probe.ocr[2])
    /\ \E i \in 1..Len(documents) :
          /\ documents[i].file = LastAttempt
          /\ documents[i].content =
                Text("[OCR failed: " \o LastAttempt.probe.ocr[2].msg \o "]")
    /\ stats.skipped = 0 /\ stats.successfully_read >= 1

\* C16: every resource a read opened (the DOCX zip archive, the XLSX or XLS
\* workbook, the Word session, the converter subprocess and its temporary
\* output file) is released when the read returns or raises, on the success
\* path and on every failure path.
C16_ResourcesReleased == ReadDone => held = {}

\* What the readers do release on every path: the zip archive (a with block)
\* and the subprocesses (subprocess.run waits for them or kills them); and on
\* the success path also the XLSX workbook, the Word session and the
\* converted file.  The XLS workbook is never released by the reader.
ResourcesReleasedWhere ==
    ReadDone =>
        /\ held \subseteq {"xlsx workbook", "xls workbook", "word session", "temp_txt"}
        /\ "xlsx workbook" \in held => (IsReadError(ret) /\ IsRaise(arg.probe.iter))
        /\ "word session" \in held => IsRaise(arg.probe.word)
        /\ ("temp_txt" \in held /\ IsReturn(ret)) => FALSE
        /\ (ReadExt = ".xls" /\ arg.probe.xlrd /\ IsReturn(arg.probe.open)) =>
              held = {"xls workbook"}
        /\ ReadExt = ".docx" => (held = {} /\ Opened(arg) = Closed(arg))

ClaimedOneEntry ==
    SearchMode =>
        \A k \in 1..Len(files) :
            /\ Cardinality(EntriesOf(files[k])) <= 1
            /\ (PathScoreOf(files[k]).is_match /\ AnalysesOf(files[k]) # {}) =>
                  \A i \in EntriesOf(files[k]) :
                      results[i].match_sources = <<"path", "content">>

\* C17: in the returned list each discovered file has at most one entry, for
\* every set of path matches and every analyzer response naming the files by
\* the 'file' value of the prompt; a file with a path match and an analysis
\* has one combined entry, not a path entry and a content entry.
C17_OneEntryPerFile == ClaimedOneEntry

\* The same for a folder given as "." : there the two keys are one string.
OneEntryWhenKeysAgree == folder = <<>> => ClaimedOneEntry

=============================================================================
